---- MODULE Spec2Model ----
(***************************************************************************)
(* A model of the uvre render device: the resource registry, the vertex    *)
(* binding slot allocator, the pipeline / vertex buffer bridge and the     *)
(* command list replay, in its two OpenGL backends:                        *)
(*   "gl"   - src/src_gl/gl_renderdevice.cpp   (direct state access)       *)
(*   "gl33" - src/gl_33/gl33_renderdevice.cpp  (vertex array groups)       *)
(* C++ objects live in heaps (functions from an object id to its fields),  *)
(* the id 0 is the null pointer, GL object names are positive integers and *)
(* the GL name 0 is "no object".                                           *)
(***************************************************************************)
EXTENDS Integers, Sequences, FiniteSets, TLC

\* ------------------------------------------------------------------ bounds
MaxBuffers == 3         \* Buffer_S objects alive at once
MaxPipelines == 1       \* Pipeline_S objects alive at once (Spec)
MaxBoundPipelines == 2  \* Pipeline_S objects alive at once (SpecBind)
MaxResources == 1       \* shaders, samplers, textures, render targets alive at once, each
MaxCommands == 2        \* records in a command list (SpecSubmit, SpecBind)
MaxDrawCommands == 3    \* records in a command list (SpecDraw)
MaxWriteBuffers == 1    \* Buffer_S objects alive at once (SpecWrite)
MaxMessages == 2        \* messages the debug callback has received before a createShader (SpecLog)
WordBits == 3           \* width of size_t, GLintptr and GLsizeiptr, scaled down from 64

\* The values of GL_MAX_VERTEX_ATTRIB_BINDINGS the driver may report (scaled
\* down: a real driver reports 16 or more).
GroupSizes == {1, 2}

VARIABLES
    variant,            \* which backend this device is: "gl" or "gl33"
    max_vbo_bindings,   \* RenderDeviceImpl::max_vbo_bindings
    vbos,               \* the VBOBinding list, in creation order: vbos[Len(vbos)] is the head
    buffers,            \* device->buffers (std::vector of Buffer_S ids)
    Buffer_S,           \* heap of Buffer_S objects
    maxLive,            \* largest number of vertex buffers alive at once so far
    pipelines,          \* device->pipelines (std::vector of Pipeline_S ids)
    Pipeline_S,         \* heap of Pipeline_S objects
    VertexArray_S,      \* heap of VertexArray_S nodes (gl33)
    shaders,            \* GLRenderDevice::shaders (the gl33 device has no such list)
    samplers,           \* GLRenderDevice::samplers (gl only)
    textures,           \* GLRenderDevice::textures (gl only)
    rendertargets,      \* GLRenderDevice::rendertargets (gl only)
    Shader_S,           \* heap of Shader_S objects
    Sampler_S,          \* heap of Sampler_S objects
    Texture_S,          \* heap of Texture_S objects
    RenderTarget_S,     \* heap of RenderTarget_S objects
    commandlists,       \* device->commandlists
    CommandListImpl,    \* heap of command lists: commands, num_commands
    bound_pipeline,     \* RenderDeviceImpl::bound_pipeline, a Pipeline_S value
    gl,                 \* the OpenGL context: live object names and bindings
    last,               \* the last API call, its arguments and what it observed
                        \* (for submit: the backend dispatches it made, in order)
    crashed,            \* the process was terminated (null or wild pointer access)
    released,           \* what the caller did with its handles: those it has
                        \* destroyed, and whether the last call destroyed one again
    onDebugMessage      \* the application's debug-message callback: whether one
                        \* was given to the device, and the messages it received

deviceVars == <<variant, max_vbo_bindings>>
bufferVars == <<vbos, buffers, Buffer_S, maxLive>>
pipelineVars == <<pipelines, Pipeline_S, VertexArray_S>>
resourceVars == <<shaders, samplers, textures, rendertargets,
                  Shader_S, Sampler_S, Texture_S, RenderTarget_S>>
commandVars == <<commandlists, CommandListImpl>>
callerVars == <<released, onDebugMessage>>

vars == <<deviceVars, bufferVars, pipelineVars, resourceVars, commandVars,
          bound_pipeline, gl, last, crashed, callerVars>>

\* ----------------------------------------------------------------- helpers
Min(S) == CHOOSE x \in S : \A y \in S : x <= y
Max(S) == CHOOSE x \in S : \A y \in S : x >= y

\* glGen* / operator new: a name (an address) that is not in use.
GenName(used) == Min({n \in 1..(Cardinality(used) + 1) : n \notin used})

\* An erase that leaves the vector as it was.
EraseFirst_Keeps(seq, x) == seq

\* std::vector::erase of the first element equal to x.
RECURSIVE EraseFirst(_, _)
EraseFirst(seq, x) ==
    IF seq = <<>> THEN <<>>
    ELSE IF Head(seq) = x THEN Tail(seq)
    ELSE <<Head(seq)>> \o EraseFirst(Tail(seq), x)

Contains(seq, x) == \E i \in 1..Len(seq) : seq[i] = x

\* delete of a heap object.
Free(heap, id) == [x \in (DOMAIN heap) \ {id} |-> heap[x]]

\* size_t arithmetic and the conversion to the signed GLintptr / GLsizeiptr.
Word == 2 ^ WordBits
Words == 0..(Word - 1)
WordAdd(a, b) == (a + b) % Word
AsSigned(x) == IF x >= Word \div 2 THEN x - Word ELSE x

\* The value of a field that was never assigned (operator new leaves the
\* object's members indeterminate).  A bool field that can hold it is kept
\* as 0 / 1.
Indeterminate == -2

\* ------------------------------------------------------------ the GL context
\* The rectangle of the window: the initial scissor box and viewport.
WindowRect == <<0, 0, 8, 8>>

glInit ==
    [buffers |-> {}, vaos |-> {}, programs |-> {}, shaders |-> {}, samplers |-> {},
     textures |-> {}, framebuffers |-> {}, ppipelines |-> {},
     vaoBind |-> <<>>,       \* vertex array name -> set of <<binding point, buffer>>
     vaoElement |-> <<>>,    \* vertex array name -> its GL_ELEMENT_ARRAY_BUFFER binding
     vaoAttrib |-> <<>>,     \* vertex array name -> binding point its attributes read
     vertexArray |-> 0,      \* GL_VERTEX_ARRAY_BINDING
     data |-> <<>>,          \* buffer name -> its data store, a sequence of bytes
     copyRead |-> 0,         \* GL_COPY_READ_BUFFER binding
     scissor |-> WindowRect, viewport |-> WindowRect,
     clearColor |-> "transparent", clearDepth |-> 1,
     caps |-> {},            \* the capabilities that are enabled
     program |-> 0,          \* glUseProgram
     drawFramebuffer |-> 0, readFramebuffer |-> 0,
     uniformBuffers |-> {},  \* set of <<index, buffer>>
     samplerUnits |-> {},    \* set of <<unit, sampler>>
     activeTexture |-> 0,
     textureUnits |-> {},    \* set of <<unit, target, texture>>
     images |-> <<>>]        \* texture name -> its image: internal format, last upload

\* A buffer object that was deleted while a vertex array that is not bound
\* still had it attached: the attachment stays, the name is free again.
Dead == -1

glGen(g, kind) == GenName(g[kind])
glCreate(g, kind, n) == [g EXCEPT ![kind] = @ \cup {n}]
glDelete(g, kind, n) == [g EXCEPT ![kind] = @ \ {n}]

glGenVertexArrays(g, n) ==
    [g EXCEPT !.vaos = @ \cup {n}, !.vaoBind = (n :> {}) @@ @,
              !.vaoElement = (n :> 0) @@ @, !.vaoAttrib = (n :> 0) @@ @]

glDeleteVertexArrays(g, n) ==
    [g EXCEPT !.vaos = @ \ {n},
              !.vaoBind = [v \in (DOMAIN @) \ {n} |-> @[v]],
              !.vaoElement = [v \in (DOMAIN @) \ {n} |-> @[v]],
              !.vaoAttrib = [v \in (DOMAIN @) \ {n} |-> @[v]],
              !.vertexArray = IF @ = n THEN 0 ELSE @]

\* glBindVertexArray of a name that is no vertex array is GL_INVALID_OPERATION.
glBindVertexArray(g, n) ==
    IF n = 0 \/ n \in g.vaos THEN [g EXCEPT !.vertexArray = n] ELSE g

\* glGenBuffers / glCreateBuffers: a buffer object with an empty data store.
glGenBuffers(g, n) == [g EXCEPT !.buffers = @ \cup {n}, !.data = (n :> <<>>) @@ @]

\* glBufferData(target, size, data, usage) on the buffer bound to the target,
\* glNamedBufferData(buffer, ...): a negative size is GL_INVALID_VALUE.
glNamedBufferData(g, n, size) ==
    IF n \in g.buffers /\ AsSigned(size) >= 0
    THEN [g EXCEPT !.data = (n :> [i \in 1..size |-> 0]) @@ @]
    ELSE g

\* glBufferSubData / glNamedBufferSubData: GL_INVALID_VALUE, and no write,
\* when offset or size is negative or offset + size exceeds the data store.
glNamedBufferSubData(g, n, offset, size, byte) ==
    IF /\ n \in DOMAIN g.data
       /\ AsSigned(offset) >= 0
       /\ AsSigned(size) >= 0
       /\ offset + size <= Len(g.data[n])
    THEN [g EXCEPT !.data[n] =
            [i \in 1..Len(@) |-> IF i > offset /\ i <= offset + size THEN byte ELSE @[i]]]
    ELSE g

glBindBuffer(g, target, n) == [g EXCEPT ![target] = n]

\* glDeleteBuffers: the name and the data store are released; the bound
\* vertex array drops the buffer, the other vertex arrays keep the deleted
\* object attached.
glDeleteBuffers(g, n) ==
    [g EXCEPT !.buffers = @ \ {n},
              !.data = [b \in (DOMAIN @) \ {n} |-> @[b]],
              !.copyRead = IF @ = n THEN 0 ELSE @,
              !.uniformBuffers = {x \in @ : x[2] # n},
              !.vaoBind = [v \in DOMAIN @ |->
                  IF v = g.vertexArray
                  THEN {x \in @[v] : x[2] # n}
                  ELSE {IF x[2] = n THEN <<x[1], Dead>> ELSE x : x \in @[v]}]]

BindPoint(s, pt, buf) == {x \in s : x[1] # pt} \cup {<<pt, buf>>}

\* glVertexArrayVertexBuffer(vaobj, binding, buffer, ...)
glVertexArrayVertexBuffer(g, vaobj, pt, buf) ==
    IF vaobj \in g.vaos THEN [g EXCEPT !.vaoBind[vaobj] = BindPoint(@, pt, buf)] ELSE g

\* glBindVertexBuffer(binding, buffer, ...): acts on the bound vertex array
glBindVertexBuffer(g, pt, buf) == glVertexArrayVertexBuffer(g, g.vertexArray, pt, buf)

\* glBindFramebuffer(GL_FRAMEBUFFER, n) binds both the draw and the read target.
glBindFramebuffer(g, target, n) ==
    CASE target = "GL_FRAMEBUFFER" -> [g EXCEPT !.drawFramebuffer = n, !.readFramebuffer = n]
      [] target = "GL_DRAW_FRAMEBUFFER" -> [g EXCEPT !.drawFramebuffer = n]
      [] target = "GL_READ_FRAMEBUFFER" -> [g EXCEPT !.readFramebuffer = n]

\* glDeleteFramebuffers: a deleted framebuffer that is bound is replaced by
\* the default framebuffer.
glDeleteFramebuffers(g, n) ==
    [g EXCEPT !.framebuffers = @ \ {n},
              !.drawFramebuffer = IF @ = n THEN 0 ELSE @,
              !.readFramebuffer = IF @ = n THEN 0 ELSE @]

glBindTexture(g, target, n) ==
    [g EXCEPT !.textureUnits =
        {x \in @ : ~(x[1] = g.activeTexture /\ x[2] = target)}
            \cup {<<g.activeTexture, target, n>>}]

glDeleteTextures(g, n) ==
    [g EXCEPT !.textures = @ \ {n}, !.textureUnits = {x \in @ : x[3] # n},
              !.images = [t \in (DOMAIN @) \ {n} |-> @[t]]]

\* glTexImage2D/3D with null data, glTextureStorage2D/3D: an image of the
\* internal format with no upload yet; internal format 0 is GL_INVALID_VALUE.
glTexImage(g, n, internal) ==
    IF internal = "0" THEN g
    ELSE [g EXCEPT !.images = (n :> [internal |-> internal, fmt |-> "none", data |-> 0]) @@ @]

\* The transfer formats GL converts into an internal format: color formats
\* into a normalized color image; anything else is GL_INVALID_OPERATION.
ColorTransfers == {"GL_RED", "GL_RG", "GL_RGB", "GL_RGBA"}
TransferConverts(internal, fmt) ==
    internal \in {"GL_R8", "GL_RGBA8"} /\ fmt \in ColorTransfers

\* glTextureSubImage2D/3D on a texture name.
glTextureSubImage(g, n, fmt, data) ==
    IF n \in DOMAIN g.images /\ TransferConverts(g.images[n].internal, fmt)
    THEN [g EXCEPT !.images[n] = [internal |-> @.internal, fmt |-> fmt, data |-> data]]
    ELSE g

\* The texture bound to a target of the active texture unit (0: none).
BoundTexture(g, target) ==
    LET b == {x \in g.textureUnits : x[1] = g.activeTexture /\ x[2] = target}
    IN  IF b = {} THEN 0 ELSE (CHOOSE x \in b : TRUE)[3]

\* glTexImage2D(target, ...) on the texture bound to the target: a cube map
\* is specified face by face, the cube map target itself is GL_INVALID_ENUM.
glTexImage2D(g, target, internal) ==
    IF target = "GL_TEXTURE_CUBE_MAP" THEN g
    ELSE glTexImage(g, BoundTexture(g, target), internal)

\* glTexSubImage2D(target, ...) on the texture bound to the target.
glTexSubImage2D(g, target, fmt, data) ==
    glTextureSubImage(g, BoundTexture(g, target), fmt, data)

\* glTexSubImage3D(target, ...): a cube map is no target of it in GL 3.3
\* (GL_INVALID_ENUM).
glTexSubImage3D(g, target, fmt, data) ==
    IF target = "GL_TEXTURE_CUBE_MAP" THEN g
    ELSE glTextureSubImage(g, BoundTexture(g, target), fmt, data)

glBindSampler(g, unit, n) ==
    [g EXCEPT !.samplerUnits = {x \in @ : x[1] # unit} \cup {<<unit, n>>}]

glDeleteSamplers(g, n) ==
    [g EXCEPT !.samplers = @ \ {n}, !.samplerUnits = {x \in @ : x[2] # n}]

glBindBufferBase(g, index, n) ==
    [g EXCEPT !.uniformBuffers = {x \in @ : x[1] # index} \cup {<<index, n>>}]

glEnable(g, cap) == [g EXCEPT !.caps = @ \cup {cap}]
glDisable(g, cap) == [g EXCEPT !.caps = @ \ {cap}]

\* ------------------------------------------------ the binding slot allocator
\* The node met first when the list is walked from its head and that is free
\* (0: none).  The head is the node created last.
FirstFree_Lowest(v) ==
    LET free == {k \in 1..Len(v) : v[k].is_free}
    IN  IF free = {} THEN 0 ELSE Min(free)
FirstFree(v) ==
    LET free == {k \in 1..Len(v) : v[k].is_free}
    IN  IF free = {} THEN 0 ELSE Max(free)

\* gl33: the new node's index is the head's index plus one.
getFreeVBOBinding33_AlwaysGrows(v) ==
    [vbos |-> Append(v, [index |-> v[Len(v)].index + 1, is_free |-> TRUE]), node |-> Len(v) + 1]
getFreeVBOBinding33(v) ==
    IF FirstFree(v) # 0
    THEN [vbos |-> v, node |-> FirstFree(v)]
    ELSE [vbos |-> Append(v, [index |-> v[Len(v)].index + 1, is_free |-> TRUE]),
          node |-> Len(v) + 1]

\* gl: the walk creates the new node when it stands on the node without a
\* successor, the tail (v[1]), so the new node's index is the tail's plus one.
getFreeVBOBindingGL(v) ==
    IF FirstFree(v) # 0
    THEN [vbos |-> v, node |-> FirstFree(v)]
    ELSE [vbos |-> Append(v, [index |-> v[1].index + 1, is_free |-> TRUE]),
          node |-> Len(v) + 1]

\* buffer->vbo->is_free = true
ReleaseSlot_Forgets(v, node) == v
ReleaseSlot(v, node) == [v EXCEPT ![node].is_free = TRUE]

getFreeVBOBinding(v) ==
    IF variant = "gl" THEN getFreeVBOBindingGL(v) ELSE getFreeVBOBinding33(v)

\* ------------------------------------------------- vertex array groups (gl33)
RECURSIVE FindNode(_, _, _)
FindNode(va, head, index) ==
    IF head = 0 \/ head \notin DOMAIN va THEN 0
    ELSE IF va[head].index = index THEN head
    ELSE FindNode(va, va[head].next, index)

RECURSIVE Chain(_, _)
Chain(va, head) ==
    IF head = 0 \/ head \notin DOMAIN va THEN <<>>
    ELSE <<head>> \o Chain(va, va[head].next)

\* setVertexFormat binds the vertex array it formats (the attribute formats
\* themselves are the same for every group of a pipeline).
setVertexFormat(g, vaobj) == glBindVertexArray(g, vaobj)

\* The index given to a node that getVertexArray creates.
NewGroupIndex(va, head, index) == va[head].index + 1

\* getVertexArray(&head, index, pipeline): the node of the chain with that
\* index, or a new node put in front of the chain.
getVertexArray(va, g, head, index) ==
    LET found == FindNode(va, head, index)
        id == GenName(DOMAIN va)
        vaobj == glGen(g, "vaos")
    IN  IF found # 0
        THEN [va |-> va, gl |-> g, head |-> head, node |-> found]
        ELSE [va |-> (id :> [index |-> NewGroupIndex(va, head, index), vaobj |-> vaobj,
                             vbobj |-> 0, next |-> head]) @@ va,
              gl |-> setVertexFormat(glGenVertexArrays(g, vaobj), vaobj),
              head |-> id, node |-> id]

\* One step of the "notify" loops of createBuffer and createPipeline: bind
\* the buffer at its slot in the pipeline's group.  w = [va, pl, gl].
BindInto33(w, p, slot, bufobj) ==
    LET r == getVertexArray(w.va, w.gl, w.pl[p].vaos, slot \div max_vbo_bindings)
        g1 == glBindVertexArray(r.gl, r.va[r.node].vaobj)
    IN  [va |-> r.va,
         pl |-> [w.pl EXCEPT ![p].vaos = r.head],
         gl |-> glBindVertexBuffer(g1, slot % max_vbo_bindings, bufobj)]

BindIntoGL(w, p, slot, bufobj) ==
    [w EXCEPT !.gl = glVertexArrayVertexBuffer(@, w.pl[p].vaobj, slot, bufobj)]

BindInto(w, p, slot, bufobj) ==
    IF variant = "gl" THEN BindIntoGL(w, p, slot, bufobj) ELSE BindInto33(w, p, slot, bufobj)

\* for(Pipeline_S *pipeline : pipelines) ...
RECURSIVE NotifyPipelines(_, _, _, _)
NotifyPipelines(w, pids, slot, bufobj) ==
    IF pids = <<>> THEN w
    ELSE NotifyPipelines(BindInto(w, Head(pids), slot, bufobj), Tail(pids), slot, bufobj)

\* for(Buffer_S *buffer : buffers) ...   (gl: only those with a vbo)
RECURSIVE NotifyBuffers(_, _, _, _)
NotifyBuffers(w, bids, p, bufs) ==
    IF bids = <<>> THEN w
    ELSE LET b == bufs[Head(bids)]
             w1 == IF b.vbo # 0 THEN BindInto(w, p, vbos[b.vbo].index, b.bufobj) ELSE w
         IN  NotifyBuffers(w1, Tail(bids), p, bufs)

\* ------------------------------------------------------------- observations
IsVertex(b) == Buffer_S[b].vbo # 0
LiveVertexBuffers == {b \in DOMAIN Buffer_S : IsVertex(b)}
Slot(b) == vbos[Buffer_S[b].vbo].index
Occupied == {Slot(b) : b \in LiveVertexBuffers}
FreeNodes == {k \in 1..Len(vbos) : vbos[k].is_free}

BufferTypes == {"VERTEX_BUFFER", "INDEX_BUFFER"}
BufferSizes == {0, 3}
\* The BufferCreateInfo values (type, size) the specifications draw from.
BufferInfos == {<<"VERTEX_BUFFER", 3>>, <<"INDEX_BUFFER", 3>>}
AllBufferInfos == BufferTypes \X BufferSizes

\* The live resources, up to the identity of handles and GL names.
LiveView ==
    [buffers |-> [t \in BufferTypes, s \in BufferSizes |->
                    Cardinality({b \in DOMAIN Buffer_S :
                        Buffer_S[b].type = t /\ Buffer_S[b].size = s})],
     pipelines |-> DOMAIN Pipeline_S]

NoView == [buffers |-> [t \in BufferTypes, s \in BufferSizes |-> 0], pipelines |-> {}]

\* What is remembered of the last API call: its name and the name of the
\* call before it, the buffer type and size it was about, for destroyBuffer
\* the slot node it released, the slots that were occupied and the resources
\* that were alive when it was called, and in arg what else the call was
\* given and returned.
ObserveArg(op, type, size, node, arg) ==
    [op |-> op, prev |-> last.op, type |-> type, size |-> size,
     node |-> IF op = "destroyBuffer" THEN node ELSE 0,
     occ |-> IF op = "destroyBuffer" THEN Occupied ELSE {},
     live |-> IF op = "destroyBuffer" THEN LiveView ELSE NoView,
     arg |-> arg]
Observe(op, type, size, node) == ObserveArg(op, type, size, node, <<>>)
Returned(op, handle) == ObserveArg(op, "", 0, 0, [handle |-> handle])

\* A chain of VertexArray_S nodes none of which has been deleted.
RECURSIVE Intact(_, _)
Intact(va, head) ==
    IF head = 0 THEN TRUE
    ELSE IF head \notin DOMAIN va THEN FALSE
    ELSE Intact(va, va[head].next)
AllIntact == \A p \in DOMAIN Pipeline_S : Intact(VertexArray_S, Pipeline_S[p].vaos)

\* A walk over a chain with a deleted node reads freed memory: the call does
\* not come back.
UseAfterFree(op) ==
    /\ crashed' = TRUE
    /\ last' = Returned(op, 0)
    /\ UNCHANGED <<deviceVars, bufferVars, pipelineVars, resourceVars, commandVars,
                   bound_pipeline, gl>>

\* GLRenderDevice::destroy<Kind> of a pointer that is in no list: the scan
\* ends without a match and nothing is done.
NotRegistered(op, handle) ==
    /\ last' = Returned(op, handle)
    /\ UNCHANGED <<deviceVars, bufferVars, pipelineVars, resourceVars, commandVars,
                   bound_pipeline, gl, crashed>>

\* ------------------------------------------------------------------- Init
\* RenderDeviceImpl::null_pipeline: value-initialised, then set field by field.
null_pipeline ==
    [bound_ibo |-> 0, bound_vao |-> 0, program |-> 0, ppobj |-> 0, vaobj |-> 0,
     blending |-> [enabled |-> FALSE], depth_testing |-> [enabled |-> FALSE],
     face_culling |-> [enabled |-> FALSE], scissor_test |-> 0,
     index_size |-> 0, index_type |-> "GL_UNSIGNED_SHORT", vaos |-> 0]

\* The state the constructor leaves, for either backend.
Constructed ==
    /\ variant \in {"gl", "gl33"}
    /\ max_vbo_bindings \in (IF variant = "gl" THEN {0} ELSE GroupSizes)
    /\ vbos = <<[index |-> 0, is_free |-> TRUE]>>
    /\ buffers = <<>>
    /\ pipelines = <<>>
    /\ shaders = <<>>
    /\ samplers = <<>>
    /\ textures = <<>>
    /\ rendertargets = <<>>
    /\ commandlists = <<>>
    /\ Buffer_S = <<>>
    /\ Pipeline_S = <<>>
    /\ VertexArray_S = <<>>
    /\ Shader_S = <<>>
    /\ Sampler_S = <<>>
    /\ Texture_S = <<>>
    /\ RenderTarget_S = <<>>
    /\ CommandListImpl = <<>>
    /\ bound_pipeline = null_pipeline
    /\ gl = glInit
    /\ last = [op |-> "createDevice", prev |-> "", type |-> "", size |-> 0, node |-> 0,
               occ |-> {}, live |-> NoView, arg |-> <<>>]
    /\ maxLive = 0
    /\ crashed = FALSE
    /\ released = [handles |-> {}, again |-> FALSE]

\* A device created without a debug-message callback.
Init == Constructed /\ onDebugMessage = [registered |-> FALSE, received |-> <<>>]

\* The gl33 backend alone.
Init33 == Init /\ variant = "gl33"

\* ------------------------------------------------------------ createBuffer
\* RenderDeviceImpl::createBuffer / GLRenderDevice::createBuffer
createBuffer(type, size) ==
    IF variant = "gl33" /\ type = "VERTEX_BUFFER" /\ ~AllIntact
    THEN UseAfterFree("createBuffer")
    ELSE /\ LET id == GenName(DOMAIN Buffer_S)
                bufobj == glGen(gl, "buffers")
                g0 == glGenBuffers(gl, bufobj)
                isv == type = "VERTEX_BUFFER"
                a == getFreeVBOBinding(vbos)
                w == IF isv
                     THEN NotifyPipelines([va |-> VertexArray_S, pl |-> Pipeline_S, gl |-> g0],
                                          pipelines, a.vbos[a.node].index, bufobj)
                     ELSE [va |-> VertexArray_S, pl |-> Pipeline_S, gl |-> g0]
                \* gl33: glBindBuffer(GL_COPY_READ_BUFFER), glBufferData;
                \* gl: if(buffer->size) glNamedBufferData
                g2 == IF variant = "gl"
                      THEN IF size # 0 THEN glNamedBufferData(w.gl, bufobj, size) ELSE w.gl
                      ELSE glNamedBufferData(glBindBuffer(w.gl, "copyRead", bufobj), bufobj, size)
            IN  /\ last' = ObserveArg("createBuffer", type, size, 0, [handle |-> id])
                /\ vbos' = IF isv THEN [a.vbos EXCEPT ![a.node].is_free = FALSE] ELSE vbos
                /\ Buffer_S' = (id :> [bufobj |-> bufobj, vbo |-> IF isv THEN a.node ELSE 0,
                                       size |-> size, type |-> type]) @@ Buffer_S
                /\ buffers' = IF isv \/ variant = "gl" THEN Append(buffers, id) ELSE buffers
                /\ VertexArray_S' = w.va
                /\ Pipeline_S' = w.pl
                /\ gl' = g2
                /\ maxLive' = IF isv /\ Cardinality(LiveVertexBuffers) + 1 > maxLive
                              THEN Cardinality(LiveVertexBuffers) + 1 ELSE maxLive
         /\ UNCHANGED <<deviceVars, pipelines, resourceVars, commandVars, bound_pipeline, crashed>>

\* A destroyBuffer that marks every slot of the allocator free.
destroyBuffer_FreesEverySlot(b) ==
    IF variant = "gl" /\ ~Contains(buffers, b)
    THEN NotRegistered("destroyBuffer", b)
    ELSE /\ b \in DOMAIN Buffer_S
         /\ last' = Observe("destroyBuffer", Buffer_S[b].type, Buffer_S[b].size, Buffer_S[b].vbo)
         /\ buffers' = EraseFirst(buffers, b)
         /\ vbos' = [k \in DOMAIN vbos |-> [vbos[k] EXCEPT !.is_free = TRUE]]
         /\ gl' = glDeleteBuffers(gl, Buffer_S[b].bufobj)
         /\ Buffer_S' = Free(Buffer_S, b)
         /\ UNCHANGED <<deviceVars, pipelineVars, maxLive, resourceVars, commandVars,
                        bound_pipeline, crashed>>

\* ----------------------------------------------------------- destroyBuffer
\* gl33: the deleter of the handle, destroyBuffer(buffer, device);
\* gl: GLRenderDevice::destroyBuffer(buffer) for a registered buffer.
destroyBuffer(b) ==
    IF variant = "gl" /\ ~Contains(buffers, b)
    THEN NotRegistered("destroyBuffer", b)
    ELSE /\ b \in DOMAIN Buffer_S
         /\ last' = Observe("destroyBuffer", Buffer_S[b].type, Buffer_S[b].size, Buffer_S[b].vbo)
         /\ buffers' = EraseFirst(buffers, b)
         /\ vbos' = IF Contains(buffers, b) /\ Buffer_S[b].vbo # 0
                    THEN ReleaseSlot(vbos, Buffer_S[b].vbo) ELSE vbos
         /\ gl' = glDeleteBuffers(gl, Buffer_S[b].bufobj)
         /\ Buffer_S' = Free(Buffer_S, b)
         /\ UNCHANGED <<deviceVars, pipelineVars, maxLive, resourceVars, commandVars,
                        bound_pipeline, crashed>>

\* ------------------------------------------------------------- writeBuffer
\* RenderDeviceImpl::writeBuffer (returns nothing) and
\* GLRenderDevice::writeBuffer (returns bool): the sum is a size_t sum.
Accepts33(offset, size, capacity) == ~(WordAdd(offset, size) > capacity)
AcceptsGL(offset, size, capacity) == ~(WordAdd(offset, size) >= capacity)
Accepts(offset, size, capacity) ==
    IF variant = "gl" THEN AcceptsGL(offset, size, capacity)
    ELSE Accepts33(offset, size, capacity)

writeBuffer(b, offset, size, byte) ==
    /\ b \in DOMAIN Buffer_S
    /\ LET buffer == Buffer_S[b]
           ok == Accepts(offset, size, buffer.size)
           g1 == IF variant = "gl" THEN gl ELSE glBindBuffer(gl, "copyRead", buffer.bufobj)
       IN  /\ gl' = IF ok
                    THEN glNamedBufferSubData(g1, buffer.bufobj, offset, size, byte)
                    ELSE gl
           /\ last' = ObserveArg("writeBuffer", buffer.type, size, 0,
                        [buffer |-> b, offset |-> offset, capacity |-> buffer.size,
                         result |-> IF variant # "gl" THEN "void" ELSE IF ok THEN "true" ELSE "false",
                         before |-> gl.data[buffer.bufobj]])
    /\ UNCHANGED <<deviceVars, bufferVars, pipelineVars, resourceVars, commandVars,
                   bound_pipeline, crashed>>

\* A device created with or without a debug-message callback (KHR_debug present).
InitLog == Constructed /\ onDebugMessage \in [registered : BOOLEAN, received : {<<>>}]

\* ---------------------------------------------------------- createPipeline
\* PipelineCreateInfo: the three enable flags, the index type and, for the
\* model, whether the driver links the shaders.
PipelineInfos ==
    [blending : BOOLEAN, depth_testing : BOOLEAN, face_culling : BOOLEAN,
     index_type : {"INDEX16"}, linked : BOOLEAN]
DefaultPipelineInfo ==
    [blending |-> FALSE, depth_testing |-> FALSE, face_culling |-> FALSE,
     index_type |-> "INDEX16", linked |-> TRUE]

\* A getIndexSize that knows 16-bit indices only.
getIndexSize_Short(type) == 2
getIndexSize(type) ==
    CASE type = "INDEX16" -> 2
      [] type = "INDEX32" -> 4
      [] OTHER -> 0

getIndexType(type) ==
    CASE type = "INDEX16" -> "GL_UNSIGNED_SHORT"
      [] type = "INDEX32" -> "GL_UNSIGNED_INT"
      [] OTHER -> 0

\* A pointer value that is neither null nor the address of an object.
Wild == -1

RECURSIVE FreeChain(_, _, _)
\* for(node = pipeline->vaos; node;) { glDeleteVertexArrays; delete node; }
FreeChain(va, g, head) ==
    IF head = 0 \/ head \notin DOMAIN va THEN [va |-> va, gl |-> g]
    ELSE FreeChain(Free(va, head), glDeleteVertexArrays(g, va[head].vaobj), va[head].next)

\* gl33, the shaders do not link: "pipeline = nullptr" runs the deleter on a
\* Pipeline_S of which only the program was assigned.  The deleter walks
\* pipeline->vaos, which is indeterminate: it reads a null pointer, the
\* address of some VertexArray_S node, or an address that is no object's.
createPipeline33_LinkFails ==
    LET program == glGen(gl, "programs")
    IN  /\ last' = Returned("createPipeline", 0)
        /\ \E v \in {0, Wild} \cup DOMAIN VertexArray_S :
             IF v = Wild
             THEN /\ crashed' = TRUE
                  /\ UNCHANGED <<gl, VertexArray_S>>
             ELSE LET r == FreeChain(VertexArray_S, glCreate(gl, "programs", program), v)
                  IN  /\ gl' = glDelete(r.gl, "programs", program)
                      /\ VertexArray_S' = r.va
                      /\ crashed' = crashed
        /\ UNCHANGED <<pipelines, Pipeline_S>>

\* RenderDeviceImpl::createPipeline.  scissor_test and the first group's
\* vbobj are never assigned.
createPipeline33(info) ==
    IF ~info.linked THEN createPipeline33_LinkFails
    ELSE
    LET id == GenName(DOMAIN Pipeline_S)
        program == glGen(gl, "programs")
        g0 == glCreate(gl, "programs", program)
        node == GenName(DOMAIN VertexArray_S)
        vaobj == glGen(g0, "vaos")
        g1 == setVertexFormat(glGenVertexArrays(g0, vaobj), vaobj)
        va1 == (node :> [index |-> 0, vaobj |-> vaobj, vbobj |-> Indeterminate,
                         next |-> 0]) @@ VertexArray_S
        pl1 == (id :> [bound_ibo |-> 0, bound_vao |-> 0, program |-> program,
                       ppobj |-> 0, vaobj |-> 0,
                       blending |-> [enabled |-> info.blending],
                       depth_testing |-> [enabled |-> info.depth_testing],
                       face_culling |-> [enabled |-> info.face_culling],
                       scissor_test |-> Indeterminate,
                       index_size |-> getIndexSize(info.index_type),
                       index_type |-> getIndexType(info.index_type),
                       vaos |-> node]) @@ Pipeline_S
        w == NotifyBuffers([va |-> va1, pl |-> pl1, gl |-> g1], buffers, id, Buffer_S)
    IN  /\ last' = Returned("createPipeline", id)
        /\ VertexArray_S' = w.va
        /\ Pipeline_S' = w.pl
        /\ gl' = w.gl
        /\ pipelines' = Append(pipelines, id)
        /\ crashed' = crashed

\* GLRenderDevice::createPipeline: a program pipeline object and one vertex
\* array; nothing is linked here.
createPipelineGL(info) ==
    LET id == GenName(DOMAIN Pipeline_S)
        ppobj == glGen(gl, "ppipelines")
        g0 == glCreate(gl, "ppipelines", ppobj)
        vaobj == glGen(g0, "vaos")
        g1 == glGenVertexArrays(g0, vaobj)
        pl1 == (id :> [bound_ibo |-> 0, bound_vao |-> 0, program |-> 0,
                       ppobj |-> ppobj, vaobj |-> vaobj,
                       blending |-> [enabled |-> info.blending],
                       depth_testing |-> [enabled |-> info.depth_testing],
                       face_culling |-> [enabled |-> info.face_culling],
                       scissor_test |-> 0,
                       index_size |-> 0,
                       index_type |-> getIndexType(info.index_type),
                       vaos |-> 0]) @@ Pipeline_S
        w == NotifyBuffers([va |-> VertexArray_S, pl |-> pl1, gl |-> g1], buffers, id, Buffer_S)
    IN  /\ last' = Returned("createPipeline", id)
        /\ VertexArray_S' = w.va
        /\ Pipeline_S' = w.pl
        /\ gl' = w.gl
        /\ pipelines' = Append(pipelines, id)
        /\ crashed' = crashed

createPipeline(info) ==
    /\ IF variant = "gl" THEN createPipelineGL(info) ELSE createPipeline33(info)
    /\ UNCHANGED <<deviceVars, bufferVars, resourceVars, commandVars, bound_pipeline>>

\* --------------------------------------------------------- destroyPipeline
\* gl33: the deleter of the handle, destroyPipeline(pipeline, device);
\* gl: GLRenderDevice::destroyPipeline(pipeline) for a registered pipeline.
destroyPipeline(p) ==
    IF variant = "gl" /\ ~Contains(pipelines, p)
    THEN NotRegistered("destroyPipeline", p)
    ELSE IF variant = "gl33" /\ p \in DOMAIN Pipeline_S /\ ~Intact(VertexArray_S, Pipeline_S[p].vaos)
         THEN UseAfterFree("destroyPipeline")
         ELSE /\ p \in DOMAIN Pipeline_S
              /\ last' = Observe("destroyPipeline", "", 0, 0)
              /\ pipelines' = EraseFirst(pipelines, p)
              /\ IF variant = "gl"
                 THEN /\ gl' = glDelete(glDeleteVertexArrays(gl, Pipeline_S[p].vaobj),
                                        "ppipelines", Pipeline_S[p].ppobj)
                      /\ VertexArray_S' = VertexArray_S
                 ELSE LET r == FreeChain(VertexArray_S, gl, Pipeline_S[p].vaos)
                      IN  /\ gl' = glDelete(r.gl, "programs", Pipeline_S[p].program)
                          /\ VertexArray_S' = r.va
              /\ Pipeline_S' = Free(Pipeline_S, p)
              /\ UNCHANGED <<deviceVars, bufferVars, resourceVars, commandVars, bound_pipeline, crashed>>

\* ------------------------------------------------- shaders, samplers, textures
\* ShaderCreateInfo: the format of the code and what the driver makes of it.
ShaderFormats == {"SOURCE_GLSL", "BINARY_SPIRV", "UNKNOWN"}
ShaderOutcomes == {"ok", "compile_error", "link_error"}

\* What a createShader call was given and returned.
ShaderReturned(handle, format, outcome) ==
    ObserveArg("createShader", "", 0, 0,
               [handle |-> handle, format |-> format, outcome |-> outcome])

\* A createShader that returns nullptr without glDeleteShader.
createShader33_Leaks(format, outcome) ==
    LET id == GenName(DOMAIN Shader_S)
        shobj == glGen(gl, "shaders")
    IN  /\ gl' = glCreate(gl, "shaders", shobj)
        /\ IF format = "SOURCE_GLSL" /\ outcome # "compile_error"
           THEN /\ Shader_S' = (id :> [shader |-> shobj, prog |-> 0]) @@ Shader_S
                /\ last' = ShaderReturned(id, format, outcome)
           ELSE /\ Shader_S' = Shader_S
                /\ last' = ShaderReturned(0, format, outcome)
        /\ shaders' = shaders

\* RenderDeviceImpl::createShader: SOURCE_GLSL only; the handle owns the
\* shader object.
createShader33(format, outcome) ==
    LET id == GenName(DOMAIN Shader_S)
        shobj == glGen(gl, "shaders")
    IN  IF format = "SOURCE_GLSL" /\ outcome # "compile_error"
        THEN /\ gl' = glCreate(gl, "shaders", shobj)
             /\ Shader_S' = (id :> [shader |-> shobj, prog |-> 0]) @@ Shader_S
             /\ shaders' = shaders
             /\ last' = ShaderReturned(id, format, outcome)
        ELSE \* glCreateShader ... glDeleteShader; return nullptr
             /\ gl' = glDelete(glCreate(gl, "shaders", shobj), "shaders", shobj)
             /\ UNCHANGED <<Shader_S, shaders>>
             /\ last' = ShaderReturned(0, format, outcome)

\* GLRenderDevice::createShader: SOURCE_GLSL or BINARY_SPIRV; the shader
\* object is linked into a separable program and deleted.
createShaderGL(format, outcome) ==
    LET id == GenName(DOMAIN Shader_S)
        prog == glGen(gl, "programs")
    IN  IF format \in {"SOURCE_GLSL", "BINARY_SPIRV"} /\ outcome = "ok"
        THEN /\ gl' = glCreate(gl, "programs", prog)
             /\ Shader_S' = (id :> [shader |-> 0, prog |-> prog]) @@ Shader_S
             /\ shaders' = Append(shaders, id)
             /\ last' = ShaderReturned(id, format, outcome)
        ELSE \* the shader object, and the program if one was made, are deleted
             /\ UNCHANGED <<gl, Shader_S, shaders>>
             /\ last' = ShaderReturned(0, format, outcome)

createShader(format, outcome) ==
    /\ IF variant = "gl" THEN createShaderGL(format, outcome)
       ELSE createShader33(format, outcome)
    /\ UNCHANGED <<deviceVars, bufferVars, pipelineVars, samplers, textures, rendertargets,
                   Sampler_S, Texture_S, RenderTarget_S, commandVars, bound_pipeline, crashed>>

\* gl33: the deleter destroyShader(shader); gl: GLRenderDevice::destroyShader
\* of a registered shader.
destroyShader(s) ==
    /\ s \in DOMAIN Shader_S
    /\ shaders' = EraseFirst(shaders, s)
    /\ gl' = IF variant = "gl" THEN glDelete(gl, "programs", Shader_S[s].prog)
             ELSE glDelete(gl, "shaders", Shader_S[s].shader)
    /\ Shader_S' = Free(Shader_S, s)
    /\ last' = Returned("destroyShader", s)
    /\ UNCHANGED <<deviceVars, bufferVars, pipelineVars, samplers, textures, rendertargets,
                   Sampler_S, Texture_S, RenderTarget_S, commandVars, bound_pipeline, crashed>>

\* createSampler of either backend: it cannot fail.
createSampler ==
    /\ LET id == GenName(DOMAIN Sampler_S)
           ssobj == glGen(gl, "samplers")
       IN  /\ gl' = glCreate(gl, "samplers", ssobj)
           /\ Sampler_S' = (id :> [ssobj |-> ssobj]) @@ Sampler_S
           /\ samplers' = IF variant = "gl" THEN Append(samplers, id) ELSE samplers
           /\ last' = Returned("createSampler", id)
    /\ UNCHANGED <<deviceVars, bufferVars, pipelineVars, shaders, textures, rendertargets,
                   Shader_S, Texture_S, RenderTarget_S, commandVars, bound_pipeline, crashed>>

destroySampler(s) ==
    /\ s \in DOMAIN Sampler_S
    /\ samplers' = EraseFirst(samplers, s)
    /\ gl' = glDeleteSamplers(gl, Sampler_S[s].ssobj)
    /\ Sampler_S' = Free(Sampler_S, s)
    /\ last' = Returned("destroySampler", s)
    /\ UNCHANGED <<deviceVars, bufferVars, pipelineVars, shaders, textures, rendertargets,
                   Shader_S, Texture_S, RenderTarget_S, commandVars, bound_pipeline, crashed>>

TextureTypes == {"TEXTURE_2D", "TEXTURE_CUBE", "TEXTURE_ARRAY", "UNKNOWN"}

\* PixelFormat: one color format of one and of four channels, one the
\* transfer table lacks a type for, and one depth format.
PixelFormats == {"R8_UNORM", "R8G8B8A8_UNORM", "R16_FLOAT", "D16_UNORM"}
DefaultPixelFormat == "R8G8B8A8_UNORM"

getInternalFormat(format) ==
    CASE format = "R8_UNORM" -> "GL_R8"
      [] format = "R8G8B8A8_UNORM" -> "GL_RGBA8"
      [] format = "D16_UNORM" -> "GL_DEPTH_COMPONENT16"
      [] OTHER -> "0"

\* getExternalFormat: the first switch gives fmt, the second gives type and
\* has no case for the 16-bit float formats.
getExternalFormat(format) ==
    CASE format = "R8_UNORM" -> [ok |-> TRUE, fmt |-> "GL_RED", type |-> "GL_UNSIGNED_BYTE"]
      [] format = "R8G8B8A8_UNORM" -> [ok |-> TRUE, fmt |-> "GL_RGBA", type |-> "GL_UNSIGNED_BYTE"]
      [] OTHER -> [ok |-> FALSE, fmt |-> "none", type |-> "none"]

getTarget(type) ==
    CASE type = "TEXTURE_2D" -> "GL_TEXTURE_2D"
      [] type = "TEXTURE_CUBE" -> "GL_TEXTURE_CUBE_MAP"
      [] type = "TEXTURE_ARRAY" -> "GL_TEXTURE_2D_ARRAY"
      [] OTHER -> 0

\* RenderDeviceImpl::createTexture: the texture name is generated before the
\* type is looked at, and the texture is bound to its target.
createTexture33(type, format) ==
    LET id == GenName(DOMAIN Texture_S)
        texobj == glGen(gl, "textures")
        g0 == glCreate(gl, "textures", texobj)
    IN  IF type # "UNKNOWN"
        THEN /\ gl' = LET g1 == glBindTexture(g0, getTarget(type), texobj)
                       IN  IF type = "TEXTURE_ARRAY"
                           THEN glTexImage(g1, texobj, getInternalFormat(format))
                           ELSE glTexImage2D(g1, getTarget(type), getInternalFormat(format))
             /\ Texture_S' = (id :> [texobj |-> texobj, format |-> getInternalFormat(format),
                                     target |-> getTarget(type)]) @@ Texture_S
             /\ last' = Returned("createTexture", id)
        ELSE /\ gl' = g0
             /\ Texture_S' = Texture_S
             /\ last' = Returned("createTexture", 0)

\* GLRenderDevice::createTexture: the texture object is created per type.
createTextureGL(type, format) ==
    LET id == GenName(DOMAIN Texture_S)
        texobj == glGen(gl, "textures")
    IN  IF type # "UNKNOWN"
        THEN /\ gl' = glTexImage(glCreate(gl, "textures", texobj), texobj,
                                  getInternalFormat(format))
             /\ Texture_S' = (id :> [texobj |-> texobj, format |-> getInternalFormat(format),
                                     target |-> getTarget(type)]) @@ Texture_S
             /\ last' = Returned("createTexture", id)
        ELSE /\ UNCHANGED <<gl, Texture_S>>
             /\ last' = Returned("createTexture", 0)

createTexture(type, format) ==
    /\ IF variant = "gl" THEN createTextureGL(type, format) ELSE createTexture33(type, format)
    /\ textures' = IF variant = "gl" /\ type # "UNKNOWN"
                   THEN Append(textures, GenName(DOMAIN Texture_S)) ELSE textures
    /\ UNCHANGED <<deviceVars, bufferVars, pipelineVars, shaders, samplers, rendertargets,
                   Shader_S, Sampler_S, RenderTarget_S, commandVars, bound_pipeline, crashed>>

destroyTexture(t) ==
    /\ t \in DOMAIN Texture_S
    /\ textures' = EraseFirst(textures, t)
    /\ gl' = glDeleteTextures(gl, Texture_S[t].texobj)
    /\ Texture_S' = Free(Texture_S, t)
    /\ last' = Returned("destroyTexture", t)
    /\ UNCHANGED <<deviceVars, bufferVars, pipelineVars, shaders, samplers, rendertargets,
                   Shader_S, Sampler_S, RenderTarget_S, commandVars, bound_pipeline, crashed>>

\* ------------------------------------------------------------ writeTexture
WriteOps == {"writeTexture2D", "writeTextureCube", "writeTextureArray"}
WriteTarget(op) ==
    CASE op = "writeTexture2D" -> "GL_TEXTURE_2D"
      [] op = "writeTextureCube" -> "GL_TEXTURE_CUBE_MAP"
      [] op = "writeTextureArray" -> "GL_TEXTURE_2D_ARRAY"

\* RenderDeviceImpl::writeTexture2D/Cube/Array: the texture is bound to the
\* target of the operation and the region is uploaded to that target.
writeTexture33(op, t, format, data) ==
    LET e == getExternalFormat(format)
        g1 == glBindTexture(gl, WriteTarget(op), Texture_S[t].texobj)
    IN  gl' = IF ~e.ok THEN gl
              ELSE IF op = "writeTexture2D" THEN glTexSubImage2D(g1, WriteTarget(op), e.fmt, data)
              ELSE glTexSubImage3D(g1, WriteTarget(op), e.fmt, data)

\* GLRenderDevice::writeTexture2D/Cube/Array upload by name.
writeTextureGL(op, t, format, data) ==
    LET e == getExternalFormat(format)
    IN  gl' = IF e.ok THEN glTextureSubImage(gl, Texture_S[t].texobj, e.fmt, data) ELSE gl

\* A write of a texture by the operation of its type.
writeTexture(op, t, format, data) ==
    /\ t \in DOMAIN Texture_S
    /\ Texture_S[t].target = WriteTarget(op)
    /\ IF variant = "gl" THEN writeTextureGL(op, t, format, data)
       ELSE writeTexture33(op, t, format, data)
    /\ last' = ObserveArg(op, "", 0, 0,
                 [texture |-> t, format |-> format,
                  result |-> IF variant # "gl" THEN "void"
                             ELSE IF getExternalFormat(format).ok THEN "true" ELSE "false"])
    /\ UNCHANGED <<deviceVars, bufferVars, pipelineVars, resourceVars, commandVars,
                   bound_pipeline, crashed>>

\* ------------------------------------------------- createShader: info logs
\* GL_INFO_LOG_LENGTH: 0 without a log, 1 for the empty string (the
\* terminator alone), more for a text.
InfoLogLengths == {0, 1, 2}

\* What the callback is called with: DebugMessageInfo (gl33, level INFO) or the text (gl).
Message(log, info_log_length) ==
    [level |-> IF variant = "gl" THEN "" ELSE "INFO", log |-> log, length |-> info_log_length]

\* The format reaches glCompileShader or glSpecializeShader.
Compiles(format) ==
    IF variant = "gl" THEN format \in {"SOURCE_GLSL", "BINARY_SPIRV"} ELSE format = "SOURCE_GLSL"

\* A createShader that looks at the log only after a failed status.
onDebugMessageCalls_OnFailure(format, outcome, info_log_length, link_log_length) ==
    (IF onDebugMessage.registered /\ Compiles(format) /\ outcome = "compile_error"
        /\ info_log_length > 1
     THEN <<Message("compile", info_log_length)>> ELSE <<>>)
    \o (IF onDebugMessage.registered /\ variant = "gl" /\ Compiles(format)
           /\ outcome = "link_error" /\ link_log_length > 1
        THEN <<Message("link", link_log_length)>> ELSE <<>>)

\* The calls createShader makes to the callback: the shader info log after
\* the compilation and before the status is looked at; in the gl backend
\* also the program info log once the shader compiled.
onDebugMessageCalls(format, outcome, info_log_length, link_log_length) ==
    (IF onDebugMessage.registered /\ Compiles(format) /\ info_log_length > 1
     THEN <<Message("compile", info_log_length)>> ELSE <<>>)
    \o (IF onDebugMessage.registered /\ variant = "gl" /\ Compiles(format)
           /\ outcome # "compile_error" /\ link_log_length > 1
        THEN <<Message("link", link_log_length)>> ELSE <<>>)

\* createShader of a device whose compiler and linker leave info logs of the
\* given lengths.
createShaderLogging(format, outcome, info_log_length, link_log_length) ==
    /\ createShader(format, outcome)
    /\ onDebugMessage' =
           [onDebugMessage EXCEPT !.received =
               @ \o onDebugMessageCalls(format, outcome, info_log_length, link_log_length)]
    /\ UNCHANGED released

\* ----------------------------------------------------------- render targets
\* RenderTargetCreateInfo: the texture of color attachment 0, the depth and
\* the stencil attachment (0: none).  glCheckFramebufferStatus reports a
\* framebuffer without any attachment incomplete.
Complete(color, depth, stencil) == color # 0 \/ depth # 0 \/ stencil # 0

\* What a createRenderTarget call was given and returned.
TargetReturned(handle, color, depth, stencil) ==
    ObserveArg("createRenderTarget", "", 0, 0,
               [handle |-> handle, color |-> color, depth |-> depth, stencil |-> stencil])

\* A createRenderTarget that returns nullptr without glDeleteFramebuffers.
createRenderTarget33_Leaks(color, depth, stencil) ==
    LET id == GenName(DOMAIN RenderTarget_S)
        fbobj == glGen(gl, "framebuffers")
        g0 == glBindFramebuffer(glCreate(gl, "framebuffers", fbobj), "GL_FRAMEBUFFER", fbobj)
    IN  /\ gl' = g0
        /\ IF Complete(color, depth, stencil)
           THEN /\ RenderTarget_S' = (id :> [fbobj |-> fbobj]) @@ RenderTarget_S
                /\ last' = TargetReturned(id, color, depth, stencil)
           ELSE /\ RenderTarget_S' = RenderTarget_S
                /\ last' = TargetReturned(0, color, depth, stencil)

\* RenderDeviceImpl::createRenderTarget binds the new framebuffer to attach
\* the textures to it.
createRenderTarget33(color, depth, stencil) ==
    LET id == GenName(DOMAIN RenderTarget_S)
        fbobj == glGen(gl, "framebuffers")
        g0 == glBindFramebuffer(glCreate(gl, "framebuffers", fbobj), "GL_FRAMEBUFFER", fbobj)
    IN  IF Complete(color, depth, stencil)
        THEN /\ gl' = g0
             /\ RenderTarget_S' = (id :> [fbobj |-> fbobj]) @@ RenderTarget_S
             /\ last' = TargetReturned(id, color, depth, stencil)
        ELSE /\ gl' = glDeleteFramebuffers(g0, fbobj)
             /\ RenderTarget_S' = RenderTarget_S
             /\ last' = TargetReturned(0, color, depth, stencil)

\* GLRenderDevice::createRenderTarget attaches by name.
createRenderTargetGL(color, depth, stencil) ==
    LET id == GenName(DOMAIN RenderTarget_S)
        fbobj == glGen(gl, "framebuffers")
    IN  IF Complete(color, depth, stencil)
        THEN /\ gl' = glCreate(gl, "framebuffers", fbobj)
             /\ RenderTarget_S' = (id :> [fbobj |-> fbobj]) @@ RenderTarget_S
             /\ last' = TargetReturned(id, color, depth, stencil)
        ELSE /\ UNCHANGED <<gl, RenderTarget_S>>
             /\ last' = TargetReturned(0, color, depth, stencil)

createRenderTarget(color, depth, stencil) ==
    /\ color \in {0} \cup DOMAIN Texture_S
    /\ depth \in {0} \cup DOMAIN Texture_S
    /\ stencil \in {0} \cup DOMAIN Texture_S
    /\ IF variant = "gl" THEN createRenderTargetGL(color, depth, stencil)
       ELSE createRenderTarget33(color, depth, stencil)
    /\ rendertargets' = IF variant = "gl" /\ Complete(color, depth, stencil)
                        THEN Append(rendertargets, GenName(DOMAIN RenderTarget_S))
                        ELSE rendertargets
    /\ UNCHANGED <<deviceVars, bufferVars, pipelineVars, shaders, samplers, textures,
                   Shader_S, Sampler_S, Texture_S, commandVars, bound_pipeline, crashed>>

destroyRenderTarget(r) ==
    /\ r \in DOMAIN RenderTarget_S
    /\ rendertargets' = EraseFirst(rendertargets, r)
    /\ gl' = glDeleteFramebuffers(gl, RenderTarget_S[r].fbobj)
    /\ RenderTarget_S' = Free(RenderTarget_S, r)
    /\ last' = Returned("destroyRenderTarget", r)
    /\ UNCHANGED <<deviceVars, bufferVars, pipelineVars, shaders, samplers, textures,
                   Shader_S, Sampler_S, Texture_S, commandVars, bound_pipeline, crashed>>

\* ------------------------------------------------------------ command lists
\* RenderDeviceImpl::createCommandList / GLRenderDevice::createCommandList
createCommandList ==
    /\ LET id == GenName(DOMAIN CommandListImpl)
       IN  /\ CommandListImpl' = (id :> [commands |-> <<>>, num_commands |-> 0]) @@ CommandListImpl
           /\ commandlists' = Append(commandlists, id)
           /\ last' = Returned("createCommandList", id)
    /\ UNCHANGED <<deviceVars, bufferVars, pipelineVars, resourceVars, bound_pipeline, gl, crashed>>

\* destroyCommandList of a list the device holds.
destroyCommandList(c) ==
    /\ Contains(commandlists, c)
    /\ commandlists' = EraseFirst(commandlists, c)
    /\ CommandListImpl' = Free(CommandListImpl, c)
    /\ last' = Returned("destroyCommandList", c)
    /\ UNCHANGED <<deviceVars, bufferVars, pipelineVars, resourceVars, bound_pipeline, gl, crashed>>

\* RenderDeviceImpl::startRecording sets num_commands to 0;
\* GLRenderDevice::startRecording does nothing.  The records beyond
\* num_commands stay in the vector's storage and are never read: commands
\* holds the records 0 .. num_commands - 1 only.
\* (a variant that leaves the records and the count as they are)
startRecording_Keeps(c) ==
    /\ c \in DOMAIN CommandListImpl
    /\ UNCHANGED CommandListImpl
    /\ last' = Returned("startRecording", c)
    /\ UNCHANGED <<deviceVars, bufferVars, pipelineVars, resourceVars, commandlists,
                   bound_pipeline, gl, crashed>>
startRecording(c) ==
    /\ c \in DOMAIN CommandListImpl
    /\ CommandListImpl' = IF variant = "gl" THEN CommandListImpl
                          ELSE [CommandListImpl EXCEPT ![c] = [commands |-> <<>>,
                                                             num_commands |-> 0]]
    /\ last' = Returned("startRecording", c)
    /\ UNCHANGED <<deviceVars, bufferVars, pipelineVars, resourceVars, commandlists,
                   bound_pipeline, gl, crashed>>

\* The recording methods of the command list append one Command record: the
\* record takes the place after the num_commands records recorded so far.
PushCommand(list, cmd) ==
    [commands |-> SubSeq(list.commands, 1, list.num_commands) \o <<cmd>>,
     num_commands |-> list.num_commands + 1]

Record(c, cmd) ==
    /\ c \in DOMAIN CommandListImpl
    /\ CommandListImpl' = [CommandListImpl EXCEPT ![c] = PushCommand(@, cmd)]
    /\ last' = Returned(cmd.type, c)
    /\ UNCHANGED <<deviceVars, bufferVars, pipelineVars, resourceVars, commandlists,
                   bound_pipeline, gl, crashed>>

setScissor(c, rect) == Record(c, [type |-> "SET_SCISSOR", scvp |-> rect])
setViewport(c, rect) == Record(c, [type |-> "SET_VIEWPORT", scvp |-> rect])
setClearDepth(c, d) == Record(c, [type |-> "SET_CLEAR_DEPTH", depth |-> d])
setClearColor3f(c, rgb) == Record(c, [type |-> "SET_CLEAR_COLOR", color |-> <<rgb, 1>>])
setClearColor4f(c, rgb, a) == Record(c, [type |-> "SET_CLEAR_COLOR", color |-> <<rgb, a>>])
clear(c, mask) == Record(c, [type |-> "CLEAR", clear_mask |-> mask])

\* The pipeline and the vertex buffer are recorded by value (Command holds a
\* Pipeline_S and a Buffer_S), the other resources by their GL name.
bindPipeline(c, p) ==
    /\ p \in DOMAIN Pipeline_S
    /\ Record(c, [type |-> "BIND_PIPELINE", pipeline |-> Pipeline_S[p]])
bindStorageBuffer(c, b, index) ==
    /\ b \in DOMAIN Buffer_S
    /\ Record(c, [type |-> "BIND_STORAGE_BUFFER", bind_index |-> index,
                  object |-> Buffer_S[b].bufobj])
bindUniformBuffer(c, b, index) ==
    /\ b \in DOMAIN Buffer_S
    /\ Record(c, [type |-> "BIND_UNIFORM_BUFFER", bind_index |-> index,
                  object |-> Buffer_S[b].bufobj])
bindIndexBuffer(c, b) ==
    /\ b \in DOMAIN Buffer_S
    /\ Record(c, [type |-> "BIND_INDEX_BUFFER", object |-> Buffer_S[b].bufobj])
bindVertexBuffer(c, b) ==
    /\ b \in DOMAIN Buffer_S
    /\ Record(c, [type |-> "BIND_VERTEX_BUFFER", buffer |-> Buffer_S[b]])
bindSampler(c, s, index) ==
    /\ s \in DOMAIN Sampler_S
    /\ Record(c, [type |-> "BIND_SAMPLER", bind_index |-> index,
                  object |-> Sampler_S[s].ssobj])
bindTexture(c, t, index) ==
    /\ t \in DOMAIN Texture_S
    /\ Record(c, [type |-> "BIND_TEXTURE", bind_index |-> index,
                  tex_target |-> Texture_S[t].target, object |-> Texture_S[t].texobj])
bindRenderTarget(c, r) ==
    /\ r \in {0} \cup DOMAIN RenderTarget_S
    /\ Record(c, [type |-> "BIND_RENDER_TARGET",
                  object |-> IF r = 0 THEN 0 ELSE RenderTarget_S[r].fbobj])
recordWriteBuffer(c, b, offset, size, byte) ==
    /\ b \in DOMAIN Buffer_S
    /\ Record(c, [type |-> "WRITE_BUFFER",
                  buffer_write |-> [buffer |-> Buffer_S[b].bufobj, offset |-> offset,
                                    size |-> size, data_ptr |-> byte]])
copyRenderTarget(c, src, dst) ==
    /\ src \in {0} \cup DOMAIN RenderTarget_S
    /\ dst \in {0} \cup DOMAIN RenderTarget_S
    /\ Record(c, [type |-> "COPY_RENDER_TARGET",
                  rt_copy |-> [src |-> IF src = 0 THEN 0 ELSE RenderTarget_S[src].fbobj,
                               dst |-> IF dst = 0 THEN 0 ELSE RenderTarget_S[dst].fbobj]])
draw(c, vertices) ==
    Record(c, [type |-> "DRAW", draw |-> [vertices |-> vertices, base_vertex |-> 0]])
idraw(c, indices, base_index) ==
    Record(c, [type |-> "IDRAW", draw |-> [indices |-> indices, base_index |-> base_index]])

\* ------------------------------------------------------------------- submit
\* The replay state: w = [gl, bp (bound_pipeline), va (the VertexArray_S
\* heap), log (the dispatches so far), crashed].
\* One entry of the log: the record the switch dispatched, the GL entry
\* points it called and the state the backend is in after them.
Dispatch(w, i, cmd, calls, offset) ==
    [w EXCEPT !.log = Append(@,
        [record |-> i, type |-> cmd.type, calls |-> calls, offset |-> offset,
         scissor |-> w.gl.scissor, viewport |-> w.gl.viewport,
         clearColor |-> w.gl.clearColor, clearDepth |-> w.gl.clearDepth,
         caps |-> w.gl.caps, vao |-> w.gl.vertexArray])]

\* The values a read of a bool field can give.
ReadBool(x) == IF x = Indeterminate THEN {0, 1} ELSE {x}

EnableIf(g, flag, cap) == IF flag THEN glEnable(g, cap) ELSE g

\* case BIND_PIPELINE, for one value read from scissor_test.
BindPipeline(w, cmd, scissor_test) ==
    LET p == cmd.pipeline
        g0 == [w.gl EXCEPT !.caps = @ \ {"GL_BLEND", "GL_DEPTH_TEST", "GL_CULL_FACE",
                                         "GL_SCISSOR_TEST"}]
        g1 == EnableIf(g0, p.blending.enabled, "GL_BLEND")
        g2 == EnableIf(g1, p.depth_testing.enabled, "GL_DEPTH_TEST")
        g3 == EnableIf(g2, p.face_culling.enabled, "GL_CULL_FACE")
        g4 == EnableIf(g3, scissor_test = 1, "GL_SCISSOR_TEST")
    IN  [w EXCEPT !.bp = p, !.gl = [g4 EXCEPT !.program = p.program]]

\* if(vaonode->vaobj != bound_pipeline.bound_vao), and a replay that binds
\* the vertex array at every record.
VertexArrayChanged_Always(vaobj, bound_vao) == TRUE
VertexArrayChanged(vaobj, bound_vao) == vaobj # bound_vao

\* case BIND_VERTEX_BUFFER, for one outcome of "vaonode->vbobj != bufobj".
\* cmd.buffer.vbo and bound_pipeline.vaos are dereferenced unchecked.
BindVertexBuffer(w, cmd, differs) ==
    IF cmd.buffer.vbo = 0 \/ w.bp.vaos = 0 \/ w.bp.vaos \notin DOMAIN w.va
    THEN [w EXCEPT !.crashed = TRUE]
    ELSE
    LET slot == vbos[cmd.buffer.vbo].index
        r == getVertexArray(w.va, w.gl, w.bp.vaos, slot \div max_vbo_bindings)
        vaobj == r.va[r.node].vaobj
        rebind == VertexArrayChanged(vaobj, w.bp.bound_vao)
        g1 == IF rebind THEN glBindVertexArray(r.gl, vaobj) ELSE r.gl
        g2 == IF differs /\ g1.vertexArray \in g1.vaos
              THEN [g1 EXCEPT !.vaoAttrib[g1.vertexArray] = slot % max_vbo_bindings,
                              !.vaoElement[g1.vertexArray] = w.bp.bound_ibo]
              ELSE g1
    IN  [w EXCEPT !.va = IF differs THEN [r.va EXCEPT ![r.node].vbobj = cmd.buffer.bufobj]
                         ELSE r.va,
                  !.bp = [@ EXCEPT !.vaos = r.head,
                                   !.bound_vao = IF rebind THEN vaobj ELSE @],
                  !.gl = g2]

\* The outcomes of "vaonode->vbobj != cmd.buffer.bufobj" for the node the
\* record resolves to: a node that getVertexArray creates has vbobj 0.
Differs(w, cmd) ==
    IF cmd.buffer.vbo = 0 \/ w.bp.vaos = 0 \/ w.bp.vaos \notin DOMAIN w.va THEN {TRUE}
    ELSE LET n == FindNode(w.va, w.bp.vaos,
                           vbos[cmd.buffer.vbo].index \div max_vbo_bindings)
             vbobj == IF n = 0 THEN 0 ELSE w.va[n].vbobj
         IN  IF vbobj = Indeterminate THEN BOOLEAN ELSE {vbobj # cmd.buffer.bufobj}

\* A COPY_RENDER_TARGET case that leaves the source and the destination bound.
CopyRenderTarget_NoRestore(w, cmd) ==
    LET g1 == glBindFramebuffer(w.gl, "GL_READ_FRAMEBUFFER", cmd.rt_copy.src)
    IN  [w EXCEPT !.gl = glBindFramebuffer(g1, "GL_DRAW_FRAMEBUFFER", cmd.rt_copy.dst)]

\* case COPY_RENDER_TARGET
CopyRenderTarget(w, cmd) ==
    LET last_binding == w.gl.drawFramebuffer
        g1 == glBindFramebuffer(w.gl, "GL_READ_FRAMEBUFFER", cmd.rt_copy.src)
        g2 == glBindFramebuffer(g1, "GL_DRAW_FRAMEBUFFER", cmd.rt_copy.dst)
    IN  [w EXCEPT !.gl = glBindFramebuffer(g2, "GL_FRAMEBUFFER", last_binding)]

\* A SET_SCISSOR case that calls glViewport in place of glScissor.
SetScissor_AsViewport(w, cmd) == [w EXCEPT !.gl.viewport = cmd.scvp]

\* case SET_SCISSOR: glScissor(x, y, w, h)
SetScissor(w, cmd) == [w EXCEPT !.gl.scissor = cmd.scvp]

\* One turn of the loop of RenderDeviceImpl::submit: the states the switch
\* can leave for record i.  A BIND_STORAGE_BUFFER record has no case.
Step(w, i, cmd) ==
    CASE cmd.type = "SET_SCISSOR" ->
            {Dispatch(SetScissor(w, cmd), i, cmd, <<"glScissor">>, 0)}
      [] cmd.type = "SET_VIEWPORT" ->
            {Dispatch([w EXCEPT !.gl.viewport = cmd.scvp], i, cmd, <<"glViewport">>, 0)}
      [] cmd.type = "SET_CLEAR_DEPTH" ->
            {Dispatch([w EXCEPT !.gl.clearDepth = cmd.depth], i, cmd, <<"glClearDepth">>, 0)}
      [] cmd.type = "SET_CLEAR_COLOR" ->
            {Dispatch([w EXCEPT !.gl.clearColor = cmd.color], i, cmd, <<"glClearColor">>, 0)}
      [] cmd.type = "CLEAR" ->
            {Dispatch(w, i, cmd, <<"glClear">>, 0)}
      [] cmd.type = "BIND_PIPELINE" ->
            {Dispatch(BindPipeline(w, cmd, s), i, cmd, <<"glDisable", "glUseProgram">>, 0) :
                s \in ReadBool(cmd.pipeline.scissor_test)}
      [] cmd.type = "BIND_UNIFORM_BUFFER" ->
            {Dispatch([w EXCEPT !.gl = glBindBufferBase(@, cmd.bind_index, cmd.object)],
                      i, cmd, <<"glBindBufferBase">>, 0)}
      [] cmd.type = "BIND_INDEX_BUFFER" ->
            {Dispatch([w EXCEPT !.bp.bound_ibo = cmd.object], i, cmd, <<>>, 0)}
      [] cmd.type = "BIND_VERTEX_BUFFER" ->
            {LET w1 == BindVertexBuffer(w, cmd, d)
             IN  IF w1.crashed THEN w1
                 ELSE Dispatch(w1, i, cmd,
                        (IF VertexArrayChanged(w1.bp.bound_vao, w.bp.bound_vao)
                         THEN <<"glBindVertexArray">> ELSE <<>>)
                        \o (IF d THEN <<"glVertexAttribBinding", "glBindBuffer">> ELSE <<>>), 0) :
                d \in Differs(w, cmd)}
      [] cmd.type = "BIND_SAMPLER" ->
            {Dispatch([w EXCEPT !.gl = glBindSampler(@, cmd.bind_index, cmd.object)],
                      i, cmd, <<"glBindSampler">>, 0)}
      [] cmd.type = "BIND_TEXTURE" ->
            {Dispatch([w EXCEPT !.gl = glBindTexture([@ EXCEPT !.activeTexture = cmd.bind_index],
                                                     cmd.tex_target, cmd.object)],
                      i, cmd, <<"glActiveTexture", "glBindTexture">>, 0)}
      [] cmd.type = "BIND_RENDER_TARGET" ->
            {Dispatch([w EXCEPT !.gl = glBindFramebuffer(@, "GL_FRAMEBUFFER", cmd.object)],
                      i, cmd, <<"glBindFramebuffer">>, 0)}
      [] cmd.type = "WRITE_BUFFER" ->
            {Dispatch([w EXCEPT !.gl = glNamedBufferSubData(
                            glBindBuffer(@, "copyRead", cmd.buffer_write.buffer),
                            cmd.buffer_write.buffer, cmd.buffer_write.offset,
                            cmd.buffer_write.size, cmd.buffer_write.data_ptr)],
                      i, cmd, <<"glBindBuffer", "glBufferSubData">>, 0)}
      [] cmd.type = "COPY_RENDER_TARGET" ->
            {Dispatch(CopyRenderTarget(w, cmd), i, cmd,
                      <<"glBindFramebuffer", "glBlitFramebuffer", "glBindFramebuffer">>, 0)}
      [] cmd.type = "DRAW" ->
            {Dispatch(w, i, cmd, <<"glDrawArraysInstancedBaseInstance">>, 0)}
      [] cmd.type = "IDRAW" ->
            {Dispatch(w, i, cmd, <<"glDrawElementsInstancedBaseVertexBaseInstance">>,
                      (w.bp.index_size * cmd.draw.base_index) % Word)}
      [] OTHER -> {w}

\* for(size_t i = 0; i < glcommands->num_commands; i++): the states the loop
\* can end in when it starts in one of the states W at record i.  A crash
\* ends the loop.
RECURSIVE Replay(_, _, _)
Replay(W, list, i) ==
    IF i > list.num_commands THEN W
    ELSE Replay(UNION {IF w.crashed THEN {w} ELSE Step(w, i, list.commands[i]) : w \in W},
                list, i + 1)

\* What submit leaves in last: the list, the dispatches it made and the
\* scissor box, viewport and clear values the backend had before it.
Submitted(c, log) ==
    ObserveArg("submit", "", 0, 0,
        [handle |-> c, dispatched |-> log,
         before |-> [scissor |-> gl.scissor, viewport |-> gl.viewport,
                     clearColor |-> gl.clearColor, clearDepth |-> gl.clearDepth,
                     caps |-> gl.caps]])

\* RenderDeviceImpl::submit
submit33(c) ==
    \E w \in Replay({[gl |-> gl, bp |-> bound_pipeline, va |-> VertexArray_S,
                      log |-> <<>>, crashed |-> FALSE]}, CommandListImpl[c], 1) :
        /\ gl' = w.gl
        /\ bound_pipeline' = w.bp
        /\ VertexArray_S' = w.va
        /\ crashed' = w.crashed
        /\ last' = Submitted(c, w.log)

\* GLRenderDevice::submit: "Nothing in OpenGL".
submitGL(c) ==
    /\ last' = Submitted(c, <<>>)
    /\ UNCHANGED <<gl, bound_pipeline, VertexArray_S, crashed>>

\* (a variant that empties the list once it is replayed)
submit_Consumes(c) ==
    /\ c \in DOMAIN CommandListImpl
    /\ IF variant = "gl" THEN submitGL(c) ELSE submit33(c)
    /\ CommandListImpl' = [CommandListImpl EXCEPT ![c] = [commands |-> <<>>,
                                                         num_commands |-> 0]]
    /\ UNCHANGED <<deviceVars, bufferVars, pipelines, Pipeline_S, resourceVars, commandlists>>
submit(c) ==
    /\ c \in DOMAIN CommandListImpl
    /\ IF variant = "gl" THEN submitGL(c) ELSE submit33(c)
    /\ UNCHANGED <<deviceVars, bufferVars, pipelines, Pipeline_S, resourceVars, commandVars>>

\* ----------------------------------------------------------- destroyDevice
Listed(list) == {list[i] : i \in 1..Len(list)}

\* glDelete<Kind>s of one name.
DeleteObject(g, kind, n) ==
    CASE kind = "buffers" -> glDeleteBuffers(g, n)
      [] kind = "vaos" -> glDeleteVertexArrays(g, n)
      [] kind = "textures" -> glDeleteTextures(g, n)
      [] kind = "samplers" -> glDeleteSamplers(g, n)
      [] kind = "framebuffers" -> glDeleteFramebuffers(g, n)
      [] OTHER -> glDelete(g, kind, n)

RECURSIVE DeleteEach(_, _, _)
DeleteEach(g, kind, names) ==
    IF names = {} THEN g
    ELSE LET n == CHOOSE x \in names : TRUE
         IN  DeleteEach(DeleteObject(g, kind, n), kind, names \ {n})

\* The objects of a heap that a list of the device points to.
Owned(heap, list) == Listed(list) \cap DOMAIN heap
Disowned(heap, list) == [x \in (DOMAIN heap) \ Listed(list) |-> heap[x]]

\* GLRenderDevice::~GLRenderDevice: every object in a list of the device is
\* deleted with its backend object, then the lists are cleared.  (The
\* indirect draw buffer idbo of the device itself is not part of the model.)
destroyDeviceGL ==
    LET g1 == DeleteEach(gl, "framebuffers",
                         {RenderTarget_S[r].fbobj : r \in Owned(RenderTarget_S, rendertargets)})
        g2 == DeleteEach(g1, "samplers", {Sampler_S[s].ssobj : s \in Owned(Sampler_S, samplers)})
        g3 == DeleteEach(g2, "textures", {Texture_S[t].texobj : t \in Owned(Texture_S, textures)})
        g4 == DeleteEach(g3, "buffers", {Buffer_S[b].bufobj : b \in Owned(Buffer_S, buffers)})
        g5 == DeleteEach(g4, "vaos", {Pipeline_S[p].vaobj : p \in Owned(Pipeline_S, pipelines)})
        g6 == DeleteEach(g5, "ppipelines", {Pipeline_S[p].ppobj : p \in Owned(Pipeline_S, pipelines)})
        g7 == DeleteEach(g6, "programs", {Shader_S[s].prog : s \in Owned(Shader_S, shaders)})
    IN  /\ gl' = g7
        /\ RenderTarget_S' = Disowned(RenderTarget_S, rendertargets)
        /\ Sampler_S' = Disowned(Sampler_S, samplers)
        /\ Texture_S' = Disowned(Texture_S, textures)
        /\ Buffer_S' = Disowned(Buffer_S, buffers)
        /\ Pipeline_S' = Disowned(Pipeline_S, pipelines)
        /\ Shader_S' = Disowned(Shader_S, shaders)
        /\ shaders' = <<>> /\ textures' = <<>> /\ samplers' = <<>> /\ rendertargets' = <<>>

\* RenderDeviceImpl::~RenderDeviceImpl: the command lists are deleted and the
\* three lists cleared; the resources belong to the handles the caller holds.
destroyDevice33 ==
    UNCHANGED <<gl, RenderTarget_S, Sampler_S, Texture_S, Buffer_S, Pipeline_S, Shader_S,
                shaders, textures, samplers, rendertargets>>

\* uvre::destroyDevice(device)
destroyDevice ==
    /\ IF variant = "gl" THEN destroyDeviceGL ELSE destroyDevice33
    /\ CommandListImpl' = Disowned(CommandListImpl, commandlists)
    /\ pipelines' = <<>> /\ buffers' = <<>> /\ commandlists' = <<>>
    /\ last' = Observe("destroyDevice", "", 0, 0)
    /\ UNCHANGED <<deviceVars, vbos, maxLive, VertexArray_S, bound_pipeline, crashed>>

\* ----------------------------------------------------------- specifications
\* The command lists a program keeps: one, recorded anew every frame.
CommandLists == 1

Alive == ~crashed

\* The caller destroys no handle twice.
Untracked == UNCHANGED callerVars
Room(heap, n) == Cardinality(DOMAIN heap) < n

\* Buffers and pipelines: every sequence of their create and destroy calls.
Next ==
    \/ Untracked /\ Alive /\ Room(Buffer_S, MaxBuffers) /\ \E i \in BufferInfos : createBuffer(i[1], i[2])
    \/ Untracked /\ Alive /\ \E b \in DOMAIN Buffer_S : destroyBuffer(b)
    \/ Untracked /\ Alive /\ Room(Pipeline_S, MaxPipelines) /\ createPipeline(DefaultPipelineInfo)
    \/ Untracked /\ Alive /\ \E p \in DOMAIN Pipeline_S : destroyPipeline(p)

Spec == Init /\ [][Next]_vars

\* Buffers only: every sequence of createBuffer and destroyBuffer calls.
NextBuffers ==
    \/ Untracked /\ Room(Buffer_S, MaxBuffers) /\ \E i \in AllBufferInfos : createBuffer(i[1], i[2])
    \/ Untracked /\ \E b \in DOMAIN Buffer_S : destroyBuffer(b)

SpecBuffers == Init /\ [][NextBuffers]_vars

\* Immediate buffer writes, with every offset and size of the word width.
Bytes == {1, 2}
NextWrite ==
    \/ Untracked /\ Room(Buffer_S, MaxWriteBuffers) /\ \E i \in AllBufferInfos : createBuffer(i[1], i[2])
    \/ Untracked /\ \E b \in DOMAIN Buffer_S : destroyBuffer(b)
    \/ Untracked /\ \E b \in DOMAIN Buffer_S, offset \in Words, size \in Words, byte \in Bytes :
            writeBuffer(b, offset, size, byte)

SpecWrite == Init /\ [][NextWrite]_vars

\* The resources of every kind: their create and destroy calls.
LinkInfos == {DefaultPipelineInfo, [DefaultPipelineInfo EXCEPT !.linked = FALSE]}
NextRegistry ==
    \/ Untracked /\ Alive /\ Room(Buffer_S, MaxResources) /\ \E i \in BufferInfos : createBuffer(i[1], i[2])
    \/ Untracked /\ Alive /\ \E b \in DOMAIN Buffer_S : destroyBuffer(b)
    \/ Untracked /\ Alive /\ Room(Pipeline_S, MaxResources) /\ \E i \in LinkInfos : createPipeline(i)
    \/ Untracked /\ Alive /\ \E p \in DOMAIN Pipeline_S : destroyPipeline(p)
    \/ Untracked /\ Alive /\ Room(Shader_S, MaxResources)
             /\ \E f \in ShaderFormats, o \in ShaderOutcomes : createShader(f, o)
    \/ Untracked /\ Alive /\ \E s \in DOMAIN Shader_S : destroyShader(s)
    \/ Untracked /\ Alive /\ Room(Sampler_S, MaxResources) /\ createSampler
    \/ Untracked /\ Alive /\ \E s \in DOMAIN Sampler_S : destroySampler(s)
    \/ Untracked /\ Alive /\ Room(Texture_S, MaxResources) /\ Cardinality(gl.textures) <= MaxResources
             /\ \E t \in TextureTypes : createTexture(t, DefaultPixelFormat)
    \/ Untracked /\ Alive /\ \E t \in DOMAIN Texture_S : destroyTexture(t)
    \/ Untracked /\ Alive /\ Room(RenderTarget_S, MaxResources)
             /\ \E t \in {0} \cup DOMAIN Texture_S : createRenderTarget(t, 0, 0)
    \/ Untracked /\ Alive /\ \E r \in DOMAIN RenderTarget_S : destroyRenderTarget(r)

SpecRegistry == Init /\ [][NextRegistry]_vars

\* Recording and submission of the records that bind a pipeline and buffers
\* and draw.
SmallRect == <<0, 0, 4, 4>>
OtherRect == <<2, 2, 4, 4>>
HasRoom(c, n) == CommandListImpl[c].num_commands < n
NextSubmit ==
    \/ Untracked /\ Alive /\ Room(Buffer_S, MaxResources) /\ \E i \in BufferInfos : createBuffer(i[1], i[2])
    \/ Untracked /\ Alive /\ Room(Pipeline_S, MaxResources) /\ createPipeline(DefaultPipelineInfo)
    \/ Untracked /\ Alive /\ Room(CommandListImpl, CommandLists) /\ createCommandList
    \/ Untracked /\ Alive /\ \E c \in DOMAIN CommandListImpl : startRecording(c)
    \/ Untracked /\ Alive /\ \E c \in DOMAIN CommandListImpl : submit(c)
    \/ Untracked /\ Alive /\ \E c \in DOMAIN CommandListImpl : HasRoom(c, MaxCommands) /\
          \/ \E p \in DOMAIN Pipeline_S : bindPipeline(c, p)
          \/ \E b \in DOMAIN Buffer_S : bindStorageBuffer(c, b, 0)
          \/ \E b \in DOMAIN Buffer_S : bindUniformBuffer(c, b, 0)
          \/ \E b \in DOMAIN Buffer_S : bindIndexBuffer(c, b)
          \/ \E b \in DOMAIN Buffer_S : bindVertexBuffer(c, b)
          \/ draw(c, 3)

SpecSubmit == Init /\ [][NextSubmit]_vars

\* gl33: state records and draws, recorded and submitted frame after frame.
NextDraw ==
    \/ Untracked /\ Room(CommandListImpl, CommandLists) /\ createCommandList
    \/ Untracked /\ \E c \in DOMAIN CommandListImpl : startRecording(c)
    \/ Untracked /\ \E c \in DOMAIN CommandListImpl : submit(c)
    \/ Untracked /\ \E c \in DOMAIN CommandListImpl : HasRoom(c, MaxDrawCommands) /\
          \/ \E r \in {SmallRect, OtherRect} : setScissor(c, r)
          \/ setViewport(c, SmallRect)
          \/ setClearDepth(c, 0)
          \/ setClearColor4f(c, "red", 1)
          \/ draw(c, 3)
          \/ idraw(c, 3, 1)

SpecDraw == Init33 /\ [][NextDraw]_vars

\* gl33: pipelines with every combination of enable flags, bound one after
\* the other.
FlagInfos == {i \in PipelineInfos : i.linked}
NextBind ==
    \/ Untracked /\ Room(Pipeline_S, MaxBoundPipelines) /\ \E i \in FlagInfos : createPipeline(i)
    \/ Untracked /\ Room(CommandListImpl, CommandLists) /\ createCommandList
    \/ Untracked /\ \E c \in DOMAIN CommandListImpl : startRecording(c)
    \/ Untracked /\ \E c \in DOMAIN CommandListImpl : submit(c)
    \/ Untracked /\ \E c \in DOMAIN CommandListImpl, p \in DOMAIN Pipeline_S :
          HasRoom(c, MaxCommands) /\ bindPipeline(c, p)

SpecBind == Init33 /\ [][NextBind]_vars

\* A handle the caller has destroyed, destroyed again.  gl: the caller still
\* has the pointer and passes it to destroyBuffer.  gl33: the handle was
\* reset when it was destroyed and owns nothing: no deleter runs.
HandleEmpty(op, handle) ==
    /\ last' = Returned(op, handle)
    /\ UNCHANGED <<deviceVars, bufferVars, pipelineVars, resourceVars, commandVars,
                   bound_pipeline, gl, crashed>>
destroyBufferAgain(h) ==
    IF variant = "gl" THEN destroyBuffer(h) ELSE HandleEmpty("destroyBuffer", h)
destroyPipelineAgain(h) ==
    IF variant = "gl" THEN destroyPipeline(h) ELSE HandleEmpty("destroyPipeline", h)

\* What the caller remembers of a call.
Destroyed(kind, h) ==
    /\ released' = [handles |-> released.handles \cup {<<kind, h>>}, again |-> FALSE]
    /\ UNCHANGED onDebugMessage
DestroyedAgain == released' = [released EXCEPT !.again = TRUE] /\ UNCHANGED onDebugMessage
Created == released' = [released EXCEPT !.again = FALSE] /\ UNCHANGED onDebugMessage
Handles(kind) == {h[2] : h \in {x \in released.handles : x[1] = kind}}

\* Buffers and pipelines, with callers that destroy a handle twice.
NextDestroy ==
    \/ Created /\ Alive /\ Room(Buffer_S, MaxResources)
               /\ \E i \in AllBufferInfos : createBuffer(i[1], i[2])
    \/ Created /\ Alive /\ Room(Pipeline_S, MaxResources) /\ createPipeline(DefaultPipelineInfo)
    \/ Alive /\ \E b \in DOMAIN Buffer_S : destroyBuffer(b) /\ Destroyed("buffer", b)
    \/ Alive /\ \E p \in DOMAIN Pipeline_S : destroyPipeline(p) /\ Destroyed("pipeline", p)
    \/ DestroyedAgain /\ Alive /\ \E h \in Handles("buffer") : destroyBufferAgain(h)
    \/ DestroyedAgain /\ Alive /\ \E h \in Handles("pipeline") : destroyPipelineAgain(h)

SpecDestroy == Init /\ [][NextDestroy]_vars

\* Shaders of every format and compile outcome, beside buffers.
NextShader ==
    \/ Untracked /\ Room(Buffer_S, MaxResources)
                 /\ \E i \in BufferInfos : createBuffer(i[1], i[2])
    \/ Untracked /\ \E b \in DOMAIN Buffer_S : destroyBuffer(b)
    \/ Untracked /\ Room(Shader_S, MaxResources + 1)
                 /\ \E f \in ShaderFormats, o \in ShaderOutcomes : createShader(f, o)
    \/ Untracked /\ \E s \in DOMAIN Shader_S : destroyShader(s)

SpecShader == Init /\ [][NextShader]_vars

\* Pipelines whose shaders link or fail to link, beside vertex buffers.
NextLink ==
    \/ Untracked /\ Alive /\ Room(Buffer_S, MaxResources)
                 /\ \E i \in BufferInfos : createBuffer(i[1], i[2])
    \/ Untracked /\ Alive /\ \E b \in DOMAIN Buffer_S : destroyBuffer(b)
    \/ Untracked /\ Alive /\ Room(Pipeline_S, MaxPipelines + 1)
                 /\ \E i \in LinkInfos : createPipeline(i)
    \/ Untracked /\ Alive /\ \E p \in DOMAIN Pipeline_S : destroyPipeline(p)

SpecLink == Init /\ [][NextLink]_vars

\* Render targets over every choice of attachments, beside textures.
NextTarget ==
    \/ Untracked /\ Room(Texture_S, MaxResources + 1) /\ createTexture("TEXTURE_2D", DefaultPixelFormat)
    \/ Untracked /\ \E t \in DOMAIN Texture_S : destroyTexture(t)
    \/ Untracked /\ Room(RenderTarget_S, MaxResources + 1)
                 /\ \E c, d, s \in {0} \cup DOMAIN Texture_S : createRenderTarget(c, d, s)
    \/ Untracked /\ \E r \in DOMAIN RenderTarget_S : destroyRenderTarget(r)

SpecTarget == Init /\ [][NextTarget]_vars

\* Textures of two color formats of each type, written in every pixel format.
TexFormats == {"R8_UNORM", "R8G8B8A8_UNORM"}
Texels == {1, 2}
NextTexture ==
    \/ Untracked /\ Room(Texture_S, MaxResources + 1)
                 /\ \E ty \in TextureTypes \ {"UNKNOWN"}, f \in TexFormats : createTexture(ty, f)
    \/ Untracked /\ \E t \in DOMAIN Texture_S : destroyTexture(t)
    \/ Untracked /\ \E op \in WriteOps, t \in DOMAIN Texture_S, f \in PixelFormats, d \in Texels :
                        writeTexture(op, t, f, d)

SpecTexture == Init /\ [][NextTexture]_vars

\* Buffers of every kind and size, zero included, beside pipelines.
NextKinds ==
    \/ Untracked /\ Alive /\ Room(Buffer_S, MaxResources + 1)
                 /\ \E i \in AllBufferInfos : createBuffer(i[1], i[2])
    \/ Untracked /\ Alive /\ \E b \in DOMAIN Buffer_S : destroyBuffer(b)
    \/ Untracked /\ Alive /\ Room(Pipeline_S, MaxPipelines) /\ createPipeline(DefaultPipelineInfo)
    \/ Untracked /\ Alive /\ \E p \in DOMAIN Pipeline_S : destroyPipeline(p)

SpecKinds == Init /\ [][NextKinds]_vars

\* gl33: render targets bound and copied by the records of a command list.
NextBlit ==
    \/ Untracked /\ Room(Texture_S, MaxResources) /\ createTexture("TEXTURE_2D", DefaultPixelFormat)
    \/ Untracked /\ Room(RenderTarget_S, MaxResources + 1)
                 /\ \E t \in DOMAIN Texture_S : createRenderTarget(t, 0, 0)
    \/ Untracked /\ \E r \in DOMAIN RenderTarget_S : destroyRenderTarget(r)
    \/ Untracked /\ Room(CommandListImpl, CommandLists) /\ createCommandList
    \/ Untracked /\ \E c \in DOMAIN CommandListImpl : startRecording(c)
    \/ Untracked /\ \E c \in DOMAIN CommandListImpl : submit(c)
    \/ Untracked /\ \E c \in DOMAIN CommandListImpl : HasRoom(c, MaxCommands) /\
          \/ \E r \in {0} \cup DOMAIN RenderTarget_S : bindRenderTarget(c, r)
          \/ \E src, dst \in {0} \cup DOMAIN RenderTarget_S : copyRenderTarget(c, src, dst)

SpecBlit == Init33 /\ [][NextBlit]_vars

\* gl33: vertex buffers created around the recording of a list that binds a
\* pipeline and vertex buffers, replayed before the pipeline is destroyed:
\* the run ends with the first destroyPipeline.
NoneDestroyed == Handles("pipeline") = {}
NextReplay ==
    \/ Untracked /\ Alive /\ NoneDestroyed /\ Room(Buffer_S, MaxResources + 1)
                 /\ createBuffer("VERTEX_BUFFER", 3)
    \/ Untracked /\ Alive /\ NoneDestroyed /\ Room(Pipeline_S, MaxPipelines)
                 /\ createPipeline(DefaultPipelineInfo)
    \/ Alive /\ NoneDestroyed
             /\ \E p \in DOMAIN Pipeline_S : destroyPipeline(p) /\ Destroyed("pipeline", p)
    \/ Untracked /\ Alive /\ NoneDestroyed /\ Room(CommandListImpl, CommandLists)
                 /\ createCommandList
    \/ Untracked /\ Alive /\ NoneDestroyed
                 /\ \E c \in DOMAIN CommandListImpl : startRecording(c)
    \/ Untracked /\ Alive /\ NoneDestroyed /\ Room(VertexArray_S, MaxBuffers + 1)
                 /\ \E c \in DOMAIN CommandListImpl : submit(c)
    \/ Untracked /\ Alive /\ NoneDestroyed
                 /\ \E c \in DOMAIN CommandListImpl : HasRoom(c, MaxCommands) /\
                       \/ \E p \in DOMAIN Pipeline_S : bindPipeline(c, p)
                       \/ \E b \in DOMAIN Buffer_S : bindVertexBuffer(c, b)

SpecReplay == Init33 /\ [][NextReplay]_vars

\* One resource of each kind and a command list, created and destroyed until
\* the device is destroyed.
DeviceExists == last.op # "destroyDevice"
NextDevice ==
    \/ Untracked /\ DeviceExists /\ Room(Buffer_S, MaxResources)
                 /\ \E i \in BufferInfos : createBuffer(i[1], i[2])
    \/ Untracked /\ DeviceExists /\ \E b \in DOMAIN Buffer_S : destroyBuffer(b)
    \/ Untracked /\ DeviceExists /\ Room(Pipeline_S, MaxResources)
                 /\ createPipeline(DefaultPipelineInfo)
    \/ Untracked /\ DeviceExists /\ Room(Shader_S, MaxResources) /\ createShader("SOURCE_GLSL", "ok")
    \/ Untracked /\ DeviceExists /\ Room(Sampler_S, MaxResources) /\ createSampler
    \/ Untracked /\ DeviceExists /\ Room(Texture_S, MaxResources)
                 /\ createTexture("TEXTURE_2D", DefaultPixelFormat)
    \/ Untracked /\ DeviceExists /\ Room(RenderTarget_S, MaxResources)
                 /\ \E t \in DOMAIN Texture_S : createRenderTarget(t, 0, 0)
    \/ Untracked /\ DeviceExists /\ Room(CommandListImpl, CommandLists) /\ createCommandList
    \/ Untracked /\ DeviceExists /\ destroyDevice

SpecDevice == Init /\ [][NextDevice]_vars

\* Shaders compiled with every outcome and info log, with and without a callback.
NextLog ==
    \/ /\ Room(Shader_S, MaxResources)
       /\ Len(onDebugMessage.received) < MaxMessages
       /\ \E f \in ShaderFormats, o \in ShaderOutcomes, c \in InfoLogLengths, k \in InfoLogLengths :
              createShaderLogging(f, o, c, k)

SpecLog == InitLog /\ [][NextLog]_vars

\* gl33: vertex and index buffers and a pipeline, created between the
\* submissions of a list that binds them, each as what it is, and draws.
NextCache ==
    \/ Untracked /\ Alive /\ Room(Buffer_S, MaxResources + 1)
                 /\ \E t \in BufferTypes : createBuffer(t, 3)
    \/ Untracked /\ Alive /\ Room(Pipeline_S, MaxPipelines) /\ createPipeline(DefaultPipelineInfo)
    \/ Untracked /\ Alive /\ Room(CommandListImpl, CommandLists) /\ createCommandList
    \/ Untracked /\ Alive /\ \E c \in DOMAIN CommandListImpl : startRecording(c)
    \/ Untracked /\ Alive /\ Room(VertexArray_S, MaxBuffers + 1)
                 /\ \E c \in DOMAIN CommandListImpl : submit(c)
    \/ Untracked /\ Alive
                 /\ \E c \in DOMAIN CommandListImpl : HasRoom(c, MaxDrawCommands) /\
                       \/ \E p \in DOMAIN Pipeline_S : bindPipeline(c, p)
                       \/ \E b \in LiveVertexBuffers : bindVertexBuffer(c, b)
                       \/ \E b \in DOMAIN Buffer_S \ LiveVertexBuffers : bindIndexBuffer(c, b)
                       \/ idraw(c, 3, 1)

SpecCache == Init33 /\ [][NextCache]_vars

\* gl33: pipelines of either index type, bound and drawn from with every
\* recorded base index.  base_index is an int32_t and index_size a size_t at
\* most 4: the range is scaled with Word so that, as in the source, the
\* product of a base index that is not negative does not wrap.
IndexInfos ==
    [blending : {FALSE}, depth_testing : {FALSE}, face_culling : {FALSE},
     index_type : {"INDEX16", "INDEX32"}, linked : {TRUE}]
BaseIndices == 0..(Word \div 4 - 1)
NextIndex ==
    \/ Untracked /\ Room(Pipeline_S, MaxBoundPipelines) /\ \E i \in IndexInfos : createPipeline(i)
    \/ Untracked /\ Room(CommandListImpl, CommandLists) /\ createCommandList
    \/ Untracked /\ \E c \in DOMAIN CommandListImpl : startRecording(c)
    \/ Untracked /\ \E c \in DOMAIN CommandListImpl : submit(c)
    \/ Untracked /\ \E c \in DOMAIN CommandListImpl : HasRoom(c, MaxCommands) /\
          \/ \E p \in DOMAIN Pipeline_S : bindPipeline(c, p)
          \/ \E b \in BaseIndices : idraw(c, 3, b)

SpecIndex == Init33 /\ [][NextIndex]_vars

\* Textures of every type, the unknown one included, created and destroyed.
\* A backend texture name that no handle owns can not be destroyed: the run
\* stops creating when MaxResources + 2 names are in use.
NextTextureType ==
    \/ Untracked /\ Room(Texture_S, MaxResources + 1)
                 /\ Cardinality(gl.textures) < MaxResources + 2
                 /\ \E ty \in TextureTypes, f \in TexFormats : createTexture(ty, f)
    \/ Untracked /\ \E t \in DOMAIN Texture_S : destroyTexture(t)

SpecTextureType == Init /\ [][NextTextureType]_vars

\* gl33: a pipeline is bound by a submit and then destroyed; lists recorded
\* after that bind vertex buffers without binding a pipeline again.
NextStale ==
    \/ Untracked /\ Alive /\ NoneDestroyed /\ Room(Buffer_S, MaxResources + 1)
                 /\ createBuffer("VERTEX_BUFFER", 3)
    \/ Untracked /\ Alive /\ NoneDestroyed /\ Room(Pipeline_S, MaxPipelines)
                 /\ createPipeline(DefaultPipelineInfo)
    \/ Alive /\ NoneDestroyed
             /\ \E p \in DOMAIN Pipeline_S : destroyPipeline(p) /\ Destroyed("pipeline", p)
    \/ Untracked /\ Alive /\ Room(CommandListImpl, CommandLists) /\ createCommandList
    \/ Untracked /\ Alive /\ \E c \in DOMAIN CommandListImpl : startRecording(c)
    \/ Untracked /\ Alive /\ \E c \in DOMAIN CommandListImpl : submit(c)
    \/ Untracked /\ Alive /\ NoneDestroyed
                 /\ \E c \in DOMAIN CommandListImpl, p \in DOMAIN Pipeline_S :
                       HasRoom(c, MaxCommands) /\ bindPipeline(c, p)
    \/ Untracked /\ Alive /\ ~NoneDestroyed
                 /\ \E c \in DOMAIN CommandListImpl, b \in DOMAIN Buffer_S :
                       HasRoom(c, MaxCommands) /\ bindVertexBuffer(c, b)

SpecStale == Init33 /\ [][NextStale]_vars

\* =================================================================== claims
\* The buffer a createBuffer step adds, and the slot it holds afterwards.
CreatedVertexBuffer ==
    /\ last'.op = "createBuffer"
    /\ last'.type = "VERTEX_BUFFER"
NewBuffer == CHOOSE b \in DOMAIN Buffer_S' : b \notin DOMAIN Buffer_S
NewNode == Buffer_S'[NewBuffer].vbo
NewSlot == vbos'[NewNode].index
FreeSlots == {vbos[k].index : k \in FreeNodes}

\* C1: no two live vertex buffers hold the same binding-slot id, in both
\* backends and with three or more vertex buffers alive at once.  (The gl
\* backend numbers every node after the first with the tail's index plus
\* one, so the second and the third vertex buffer both hold slot 1.)
C1_SlotsUnique ==
    \A a, b \in LiveVertexBuffers : a # b => Slot(a) # Slot(b)

\* C2: for every live pipeline p and every live vertex buffer b of the gl33
\* backend, p has exactly one vertex-array group with index
\* slot(b) / max_vbo_bindings, and b is bound in it at binding point
\* slot(b) % max_vbo_bindings.
GroupsOf(p, index) ==
    {n \in DOMAIN VertexArray_S :
        /\ Contains(Chain(VertexArray_S, Pipeline_S[p].vaos), n)
        /\ VertexArray_S[n].index = index}
BoundIn(p, b) ==
    LET nodes == GroupsOf(p, Slot(b) \div max_vbo_bindings)
    IN  /\ Cardinality(nodes) = 1
        /\ \A n \in nodes :
             /\ VertexArray_S[n].vaobj \in gl.vaos
             /\ <<Slot(b) % max_vbo_bindings, Buffer_S[b].bufobj>>
                    \in gl.vaoBind[VertexArray_S[n].vaobj]
C2_EveryVertexBufferBoundInEveryPipeline ==
    variant = "gl33" =>
        \A p \in DOMAIN Pipeline_S : \A b \in LiveVertexBuffers : BoundIn(p, b)

\* C3 (as amended): a slot node is created only when no
\* node is free; the occupied slot ids lie in 0 .. (number of nodes - 1); the
\* number of nodes is max(1, largest number of vertex buffers ever alive at
\* once); and a vertex buffer created right after the only live vertex buffer
\* was destroyed receives the slot of the list's head node, which is slot 0
\* only while a single node exists.
C3_NodesAndRange ==
    /\ Len(vbos) = (IF maxLive > 1 THEN maxLive ELSE 1)
    /\ Occupied \subseteq 0..(Len(vbos) - 1)
C3_GrowsOnlyWhenFull ==
    Len(vbos') > Len(vbos) => FreeNodes = {}
RightAfterOnlyLiveDestroyed ==
    /\ last.op = "destroyBuffer"
    /\ last.type = "VERTEX_BUFFER"
    /\ LiveVertexBuffers = {}
    /\ CreatedVertexBuffer
C3_ReuseAfterOnlyLive ==
    RightAfterOnlyLiveDestroyed =>
        /\ NewSlot = vbos[Len(vbos)].index
        /\ (NewSlot = 0 <=> Len(vbos) = 1)
C3_AllocatorReuse ==
    /\ []C3_NodesAndRange
    /\ [][C3_GrowsOnlyWhenFull /\ C3_ReuseAfterOnlyLive]_vars

\* C3 as stated: ... and a vertex buffer created right after the only live
\* vertex buffer was destroyed receives slot 0 again, not slot 1.
C3_Original ==
    [][C3_GrowsOnlyWhenFull /\ (RightAfterOnlyLiveDestroyed => NewSlot = 0)]_vars

\* C3 witness: gl33, two nodes exist, the only live vertex buffer was
\* destroyed and the vertex buffer created right after it holds a slot again.
C3_Witness ==
    /\ variant = "gl33"
    /\ last.op = "createBuffer" /\ last.type = "VERTEX_BUFFER"
    /\ last.prev = "destroyBuffer"
    /\ Cardinality(LiveVertexBuffers) = 1
    /\ Len(vbos) = 2 /\ maxLive = 2

\* C4 (as amended): when more than one binding slot is free, acquiring a
\* slot for a new vertex buffer returns the free node nearest the head of
\* the list (the free node created last), whose slot id is the highest among
\* the free ones, not the lowest; the list of nodes never shrinks.
C4_Step ==
    /\ Len(vbos') >= Len(vbos)
    /\ (CreatedVertexBuffer /\ Cardinality(FreeNodes) > 1) =>
          /\ NewNode = Max(FreeNodes)
          /\ NewSlot = Max(FreeSlots)
          /\ Len(vbos') = Len(vbos)
C4_ReusesNearestHead == [][C4_Step]_vars

\* C4 as stated: with more than one slot free, the lowest-numbered free slot
\* is returned.
C4_Original ==
    [][(CreatedVertexBuffer /\ Cardinality(FreeNodes) > 1) => NewSlot = Min(FreeSlots)]_vars

\* C4 witness: a vertex buffer was just created and a free node is left, so
\* more than one node was free when it acquired its slot.
C4_Witness ==
    /\ last.op = "createBuffer" /\ last.type = "VERTEX_BUFFER"
    /\ FreeNodes # {}
    /\ LiveVertexBuffers # {}

\* C5 (as amended): destroying a vertex buffer and immediately creating a
\* buffer of the same kind and size leaves the set of occupied binding slots
\* and the live resources (up to handle identity) as they were before the
\* destroy, provided no node nearer the head of the list than the destroyed
\* buffer's node is free at that moment; other free nodes farther from the
\* head do not matter.
RecreatedSame ==
    /\ last.op = "destroyBuffer"
    /\ last.type = "VERTEX_BUFFER"
    /\ last'.op = "createBuffer"
    /\ last'.type = last.type
    /\ last'.size = last.size
C5_Step ==
    (RecreatedSame /\ \A k \in FreeNodes : k <= last.node) =>
        /\ Occupied' = last.occ
        /\ LiveView' = last.live
SubmittedList == CommandListImpl[last.arg.handle]
Log == last.arg.dispatched

\* C6: in the gl33 backend, the dispatches of one submit are the dispatches
\* of the records 0 .. num_commands - 1 of the list, one per record and in
\* that order: none is skipped, repeated, reordered or merged.  (A submit
\* that a null pointer access ends is left aside.)
C6_ReplayInAppendOrder ==
    (variant = "gl33" /\ last.op = "submit" /\ ~crashed) =>
        /\ Len(Log) = SubmittedList.num_commands
        /\ \A k \in 1..Len(Log) :
             /\ Log[k].record = k
             /\ Log[k].type = SubmittedList.commands[k].type

\* The draw records of a list, by position, and the draw dispatches of a log.
DrawTypes == {"DRAW", "IDRAW"}
DrawRecords(list) ==
    LET isDraw(k) == list.commands[k].type \in DrawTypes
    IN  SelectSeq([k \in 1..list.num_commands |-> k], isDraw)
IsDrawDispatch(e) == e.type \in DrawTypes
\* The payload of the last record of the given type before record k, or the
\* backend's value before the submit when there is none.
InEffect(list, k, type, field, before) ==
    LET set == {j \in 1..(k - 1) : list.commands[j].type = type}
    IN  IF set = {} THEN before ELSE list.commands[Max(set)][field]

Features == {"GL_BLEND", "GL_DEPTH_TEST", "GL_CULL_FACE", "GL_SCISSOR_TEST"}
FlagCaps(p) ==
    (IF p.blending.enabled THEN {"GL_BLEND"} ELSE {})
    \cup (IF p.depth_testing.enabled THEN {"GL_DEPTH_TEST"} ELSE {})
    \cup (IF p.face_culling.enabled THEN {"GL_CULL_FACE"} ELSE {})
    \cup (IF p.scissor_test = 1 THEN {"GL_SCISSOR_TEST"} ELSE {})

\* C8: after the replay of a bind-pipeline record, blending, depth testing,
\* face culling and scissor testing are enabled exactly as the flags of the
\* pipeline of that record say: a feature is enabled only if the new
\* pipeline's own flag enables it.
C8_EnableStateFromFlags ==
    last.op = "submit" =>
        \A k \in 1..Len(Log) :
            Log[k].type = "BIND_PIPELINE" =>
                Log[k].caps \cap Features
                    = FlagCaps(SubmittedList.commands[Log[k].record].pipeline)

\* C9: an immediate writeBuffer whose offset + size exceeds the capacity of
\* the buffer leaves the data store as it was and is not reported to the
\* caller as a success.
C9_OverCapacityWriteRejected ==
    (last.op = "writeBuffer" /\ last.arg.offset + last.size > last.arg.capacity) =>
        /\ gl.data[Buffer_S[last.arg.buffer].bufobj] = last.arg.before
        /\ last.arg.result # "true"

\* A registry list holds exactly the given handles, each once.
Elements(list) == {list[i] : i \in 1..Len(list)}
Exactly(list, handles) ==
    /\ Elements(list) = handles
    /\ Len(list) = Cardinality(handles)

\* The handles of a kind a step destroyed.
Gone(heap, heap2) == DOMAIN heap \ DOMAIN heap2

\* Every handle a step destroyed has had the backend object it names deleted.
ReleasesBackendObjects ==
    /\ \A b \in Gone(Buffer_S, Buffer_S') : Buffer_S[b].bufobj \notin gl'.buffers
    /\ \A s \in Gone(Sampler_S, Sampler_S') : Sampler_S[s].ssobj \notin gl'.samplers
    /\ \A t \in Gone(Texture_S, Texture_S') : Texture_S[t].texobj \notin gl'.textures
    /\ \A r \in Gone(RenderTarget_S, RenderTarget_S') :
           RenderTarget_S[r].fbobj \notin gl'.framebuffers
    /\ \A s \in Gone(Shader_S, Shader_S') :
           IF variant = "gl" THEN Shader_S[s].prog \notin gl'.programs
           ELSE Shader_S[s].shader \notin gl'.shaders
    /\ \A p \in Gone(Pipeline_S, Pipeline_S') :
           IF variant = "gl"
           THEN Pipeline_S[p].ppobj \notin gl'.ppipelines
                /\ Pipeline_S[p].vaobj \notin gl'.vaos
           ELSE Pipeline_S[p].program \notin gl'.programs

\* The lists of the gl backend: one per kind.
RegistriesGL ==
    /\ Exactly(shaders, DOMAIN Shader_S)
    /\ Exactly(pipelines, DOMAIN Pipeline_S)
    /\ Exactly(buffers, DOMAIN Buffer_S)
    /\ Exactly(samplers, DOMAIN Sampler_S)
    /\ Exactly(textures, DOMAIN Texture_S)
    /\ Exactly(rendertargets, DOMAIN RenderTarget_S)

\* The lists of the gl33 backend: pipelines, and the vertex buffers.
Registries33 ==
    /\ Exactly(pipelines, DOMAIN Pipeline_S)
    /\ Exactly(buffers, LiveVertexBuffers)
    /\ shaders = <<>> /\ samplers = <<>> /\ textures = <<>> /\ rendertargets = <<>>

C11_SecondDestroyIsNoOp ==
    [][released'.again =>
          UNCHANGED <<bufferVars, pipelineVars, resourceVars, commandVars, gl>>]_vars

\* The shader formats a backend does not take.
UnsupportedFormat(f) ==
    IF variant = "gl" THEN f \notin {"SOURCE_GLSL", "BINARY_SPIRV"} ELSE f # "SOURCE_GLSL"
FailedCreateShader(l) ==
    /\ l.op = "createShader"
    /\ UnsupportedFormat(l.arg.format) \/ l.arg.outcome = "compile_error"

\* C12: a createShader call with an unsupported format, or whose source does
\* not compile, returns a null handle and leaves the backend objects, the
\* registries and all other device state as they were: the shader object it
\* created is deleted again.
C12_FailedShaderLeavesNothing ==
    [][FailedCreateShader(last') =>
          /\ last'.arg.handle = 0
          /\ UNCHANGED <<deviceVars, bufferVars, pipelineVars, resourceVars, commandVars,
                         bound_pipeline, gl, crashed>>]_vars

\* C12 witness: a createShader call whose source does not compile has returned while a
\* shader and a buffer are alive.
C12_Witness ==
    /\ FailedCreateShader(last)
    /\ last.arg.handle = 0
    /\ last.arg.format = "SOURCE_GLSL"
    /\ DOMAIN Shader_S # {}
    /\ DOMAIN Buffer_S # {}

\* C13: a createPipeline call whose shaders do not link returns a null handle
\* and releases nothing but what it created itself: the pipeline list, the
\* pipelines, their vertex array groups, the buffers with their slots and the
\* backend objects are as before the call.
C13_FailedPipelineReleasesOnlyItsOwn ==
    [][(last'.op = "createPipeline" /\ last'.arg.handle = 0) =>
          UNCHANGED <<pipelines, Pipeline_S, VertexArray_S, bufferVars, gl>>]_vars

C15_BadFormatWritesNothing ==
    [][(/\ last'.op \in WriteOps
        /\ \/ ~getExternalFormat(last'.arg.format).ok
           \/ getInternalFormat(last'.arg.format) # Texture_S[last'.arg.texture].format)
          => gl'.images = gl.images]_vars

\* The vertex arrays a buffer object is attached to.
AttachedTo(bufobj) ==
    {v \in DOMAIN gl.vaoBind : \E x \in gl.vaoBind[v] : x[2] = bufobj}

\* C16: a live buffer of size zero, or of a kind other than vertex buffer,
\* holds no binding slot and is attached to no vertex array of any pipeline,
\* whatever the order of buffer and pipeline creation.
C16_ZeroOrNonVertexNeverBound ==
    \A b \in DOMAIN Buffer_S :
        (Buffer_S[b].size = 0 \/ Buffer_S[b].type # "VERTEX_BUFFER") =>
            /\ Buffer_S[b].vbo = 0
            /\ AttachedTo(Buffer_S[b].bufobj) = {}

\* C17: a command list that was just submitted is idle: until startRecording
\* is called, no operation changes its records.
C17_IdleListKeepsItsRecords ==
    [][(last.op = "submit" /\ last'.op # "startRecording") =>
          CommandListImpl' = CommandListImpl]_vars

\* The framebuffer bindings of a replay state, and the states the replay of
\* the first k records of a list ends in when it starts in the current state.
Binding(w) == <<w.gl.drawFramebuffer, w.gl.readFramebuffer>>
ReplayOf(list, k) ==
    Replay({[gl |-> gl, bp |-> bound_pipeline, va |-> VertexArray_S,
             log |-> <<>>, crashed |-> FALSE]},
           [commands |-> list.commands, num_commands |-> k], 1)

\* C18: in every submit, the framebuffer bound after the replay of a
\* copy-render-target record is the one that was bound before that record,
\* and the submit ends with the bindings the replay gives.
C18_BlitKeepsBinding ==
    [][last'.op = "submit" =>
          LET list == CommandListImpl[last'.arg.handle]
          IN  /\ \A k \in 1..list.num_commands :
                    list.commands[k].type = "COPY_RENDER_TARGET" =>
                        {Binding(w) : w \in ReplayOf(list, k)} =
                        {Binding(w) : w \in ReplayOf(list, k - 1)}
              /\ <<gl'.drawFramebuffer, gl'.readFramebuffer>>
                    \in {Binding(w) : w \in ReplayOf(list, list.num_commands)}]_vars

\* C18 witness: a submit has replayed a copy between two different targets
\* while a third one, bound by the record before, is still bound.
C18_Witness ==
    /\ last.op = "submit"
    /\ gl.drawFramebuffer # 0
    /\ LET list == CommandListImpl[last.arg.handle]
       IN  /\ list.num_commands = 2
           /\ list.commands[1].type = "BIND_RENDER_TARGET"
           /\ list.commands[1].object = gl.drawFramebuffer
           /\ list.commands[2].type = "COPY_RENDER_TARGET"
           /\ list.commands[2].rt_copy.src # list.commands[2].rt_copy.dst
           /\ list.commands[2].rt_copy.src # gl.drawFramebuffer
           /\ list.commands[2].rt_copy.dst # gl.drawFramebuffer

\* C19: when destroyPipeline has destroyed the last pipeline, no vertex array
\* group of any pipeline is left, neither its node nor its vertex array
\* object, the groups made during a replay included.
C19_DestroyReleasesEveryGroup ==
    (last.op = "destroyPipeline" /\ DOMAIN Pipeline_S = {} /\ ~crashed) =>
        /\ DOMAIN VertexArray_S = {}
        /\ gl.vaos = {}

\* C20: a destroyBuffer call on a vertex buffer frees the allocator node of
\* that buffer and no other, takes that buffer and no other out of the
\* buffer list and the heap, and leaves every other buffer with its node and
\* the pipelines with their vertex array groups as they were.
C20_DestroyBufferIsLocal ==
    [][(last'.op = "destroyBuffer" /\ last'.type = "VERTEX_BUFFER") =>
          LET gone == DOMAIN Buffer_S \ DOMAIN Buffer_S'
          IN  /\ Cardinality(gone) = 1
              /\ \A b \in gone :
                    /\ ~vbos[Buffer_S[b].vbo].is_free
                    /\ vbos' = [vbos EXCEPT ![Buffer_S[b].vbo].is_free = TRUE]
                    /\ buffers' = SelectSeq(buffers, LAMBDA x : x # b)
              /\ \A o \in DOMAIN Buffer_S' : Buffer_S'[o] = Buffer_S[o]
              /\ UNCHANGED <<pipelines, Pipeline_S, VertexArray_S>>
              /\ gl'.vaos = gl.vaos]_vars

\* C20 witness: a vertex buffer was destroyed while another vertex buffer and
\* a pipeline are alive.
C20_Witness ==
    /\ last.op = "destroyBuffer" /\ last.type = "VERTEX_BUFFER"
    /\ LiveVertexBuffers # {}
    /\ DOMAIN Pipeline_S # {}

\* C21: once the device is destroyed no backend object of a resource created
\* through it exists any more, no command list is left, and every list of
\* the device is empty.
NoBackendObjects ==
    /\ gl.buffers = {} /\ gl.vaos = {} /\ gl.programs = {} /\ gl.ppipelines = {}
    /\ gl.shaders = {} /\ gl.samplers = {} /\ gl.textures = {} /\ gl.framebuffers = {}
C21_NothingOutlivesDevice ==
    last.op = "destroyDevice" =>
        /\ NoBackendObjects
        /\ DOMAIN CommandListImpl = {}
        /\ pipelines = <<>> /\ buffers = <<>> /\ commandlists = <<>>
        /\ shaders = <<>> /\ textures = <<>> /\ samplers = <<>> /\ rendertargets = <<>>

\* C22: with a callback registered, a createShader that compiles forwards the
\* compiler's info log to the callback whether the compilation succeeded or
\* failed; without a callback nothing is forwarded.
Forwards(message) ==
    \E i \in (Len(onDebugMessage.received) + 1)..Len(onDebugMessage'.received) :
        onDebugMessage'.received[i] = message
C23_NodesNumberedInOrder ==
    \A k \in 1..Len(vbos) : vbos[k].index = k - 1

\* C24: the group a new gl33 pipeline binds a live vertex buffer into, the one
\* getVertexArray returned for slot / max_vbo_bindings, has that index, also
\* when the groups asked for are not consecutive.
C24_GroupHasRequestedIndex ==
    (variant = "gl33" /\ last.op = "createPipeline" /\ last.arg.handle # 0 /\ ~crashed) =>
        \A b \in LiveVertexBuffers :
            \A n \in DOMAIN VertexArray_S :
                (/\ Contains(Chain(VertexArray_S, Pipeline_S[last.arg.handle].vaos), n)
                 /\ VertexArray_S[n].vaobj \in DOMAIN gl.vaoBind
                 /\ <<Slot(b) % max_vbo_bindings, Buffer_S[b].bufobj>>
                        \in gl.vaoBind[VertexArray_S[n].vaobj])
                    => VertexArray_S[n].index = Slot(b) \div max_vbo_bindings

\* The replay states before record k of a list that have not crashed, the
\* group a bind-vertex-buffer record finds in a replay state (0: none, the
\* replay makes one and puts it at the head), and the backend calls of the
\* last dispatch of a replay state.
Before(list, k) == {w \in ReplayOf(list, k - 1) : ~w.crashed}
Resolved(w, cmd) ==
    FindNode(w.va, w.bp.vaos, vbos[cmd.buffer.vbo].index \div max_vbo_bindings)
Calls(w) == {w.log[Len(w.log)].calls[j] : j \in 1..Len(w.log[Len(w.log)].calls)}

\* C25: in every submit, the replay of a bind-vertex-buffer record calls
\* glBindVertexArray only if the group it resolves to is not the cached bound
\* one, which after a bind-vertex-buffer record is the group of that record;
\* it rewires the attributes only if the buffer cached for the group is not
\* the record's buffer; and with neither it makes no backend call.
C25_RebindsOnlyOnChange ==
    [][last'.op = "submit" =>
          LET list == CommandListImpl[last'.arg.handle]
          IN  \A k \in 1..list.num_commands :
                list.commands[k].type = "BIND_VERTEX_BUFFER" =>
                  \A w \in Before(list, k) :
                    \A w1 \in {x \in Step(w, k, list.commands[k]) : ~x.crashed} :
                      LET cmd == list.commands[k]
                          old == Resolved(w, cmd)
                          node == IF old # 0 THEN old ELSE w1.bp.vaos
                          same == old # 0 /\ w.va[old].vaobj = w.bp.bound_vao
                          cached == old # 0 /\ w.va[old].vbobj = cmd.buffer.bufobj
                      IN  /\ w1.va[node].vaobj = w1.bp.bound_vao
                          /\ "glBindVertexArray" \in Calls(w1) => ~same
                          /\ "glVertexAttribBinding" \in Calls(w1) => ~cached
                          /\ (same /\ cached) => (Calls(w1) = {} /\ w1.gl = w.gl)
                          /\ (old # 0 /\ ~same) => "glBindVertexArray" \in Calls(w1)
                          /\ (old # 0 /\ ~cached /\ w.va[old].vbobj # Indeterminate)
                                 => "glVertexAttribBinding" \in Calls(w1)]_vars
\* A submit replayed two bind-vertex-buffer records in a row: the first made
\* backend calls, the second, of the same buffer, made none.
C25_Witness ==
    /\ last.op = "submit"
    /\ \E j \in 2..Len(last.arg.dispatched) :
          /\ last.arg.dispatched[j].type = "BIND_VERTEX_BUFFER"
          /\ last.arg.dispatched[j].calls = <<>>
          /\ last.arg.dispatched[j - 1].type = "BIND_VERTEX_BUFFER"
          /\ last.arg.dispatched[j - 1].calls # <<>>

\* sizeof(Index16), sizeof(Index32): the size of an element of the type the
\* draw call is given.
ElementSize(index_type) == IF index_type = "GL_UNSIGNED_INT" THEN 4 ELSE 2

\* C26: in every submit, the byte offset an indexed draw is dispatched with is
\* the record's base index times the size of an index element of the pipeline
\* bound at that record (2 for 16-bit, 4 for 32-bit indices).
C26_OffsetIsBaseTimesSize ==
    [][last'.op = "submit" =>
          LET list == CommandListImpl[last'.arg.handle]
          IN  \A k \in 1..list.num_commands :
                list.commands[k].type = "IDRAW" =>
                  \A w \in Before(list, k) :
                    w.bp.program # 0 =>
                      \A w1 \in Step(w, k, list.commands[k]) :
                        w1.log[Len(w1.log)].offset =
                            list.commands[k].draw.base_index * ElementSize(w.bp.index_type)]_vars
\* A submit has drawn with 32-bit indices from a base index that is not 0.
C26_Witness ==
    /\ last.op = "submit"
    /\ bound_pipeline.index_type = "GL_UNSIGNED_INT"
    /\ \E j \in 1..Len(last.arg.dispatched) :
          /\ last.arg.dispatched[j].type = "IDRAW"
          /\ last.arg.dispatched[j].offset = 4

\* C27: in the gl33 backend every bind record of a submitted list is
\* dispatched, and the dispatch of a bind-storage-buffer record, like that of
\* a bind-uniform-buffer record, binds a buffer at an indexed binding point.
BindTypes ==
    {"BIND_PIPELINE", "BIND_STORAGE_BUFFER", "BIND_UNIFORM_BUFFER", "BIND_INDEX_BUFFER",
     "BIND_VERTEX_BUFFER", "BIND_SAMPLER", "BIND_TEXTURE", "BIND_RENDER_TARGET"}
C27_EveryBindDispatched ==
    (variant = "gl33" /\ last.op = "submit" /\ ~crashed) =>
        \A k \in 1..SubmittedList.num_commands :
            SubmittedList.commands[k].type \in BindTypes =>
                \E j \in 1..Len(Log) :
                    /\ Log[j].record = k
                    /\ Log[j].type = SubmittedList.commands[k].type
                    /\ Log[j].type \in {"BIND_STORAGE_BUFFER", "BIND_UNIFORM_BUFFER"}
                          => Log[j].calls = <<"glBindBufferBase">>

\* C28: in every submit, at an indexed draw that follows a bind-index-buffer
\* record and then a bind-vertex-buffer record of the same list, the element
\* array buffer of the vertex array the backend has bound is the buffer of
\* the last bind-index-buffer record before the draw.
RecordsBefore(list, k, type) == {j \in 1..(k - 1) : list.commands[j].type = type}
C28_DrawsFromLastIndexBuffer ==
    [][last'.op = "submit" =>
          LET list == CommandListImpl[last'.arg.handle]
          IN  \A k \in 1..list.num_commands :
                LET ibo == RecordsBefore(list, k, "BIND_INDEX_BUFFER")
                    vbo == RecordsBefore(list, k, "BIND_VERTEX_BUFFER")
                IN  (/\ list.commands[k].type = "IDRAW"
                     /\ ibo # {} /\ vbo # {} /\ Max(ibo) < Max(vbo)) =>
                       \A w \in Before(list, k) :
                          /\ w.gl.vertexArray \in DOMAIN w.gl.vaoElement
                          /\ w.gl.vaoElement[w.gl.vertexArray]
                                = list.commands[Max(ibo)].object]_vars

\* C29: in every submit, at a draw that follows a bind-vertex-buffer record of
\* the same list with no bind-pipeline record in between, the vertex array
\* the backend has bound is the one the device has cached as bound, the
\* group that record resolved to.
C29_CachedVertexArrayIsBound ==
    [][last'.op = "submit" =>
          LET list == CommandListImpl[last'.arg.handle]
          IN  \A k \in 1..list.num_commands :
                LET vbo == RecordsBefore(list, k, "BIND_VERTEX_BUFFER")
                    ppl == RecordsBefore(list, k, "BIND_PIPELINE")
                IN  (/\ list.commands[k].type \in DrawTypes
                     /\ vbo # {}
                     /\ \A j \in ppl : j < Max(vbo)) =>
                       \A w \in Before(list, k) :
                          /\ w.gl.vertexArray = w.bp.bound_vao
                          /\ LET node == Resolved(w, list.commands[Max(vbo)])
                             IN  node # 0 /\ w.va[node].vaobj = w.gl.vertexArray]_vars

\* C30: an immediate writeBuffer of some bytes whose offset + size does not exceed the
\* capacity of the buffer, a write that ends exactly at the end of the buffer
\* included, is performed and is not reported as a failure, in both backends.
C30_WriteWithinCapacityPerformed ==
    (/\ last.op = "writeBuffer" /\ last.size > 0
     /\ last.arg.offset + last.size <= last.arg.capacity) =>
        /\ last.arg.result # "false"
        /\ \A i \in (last.arg.offset + 1)..(last.arg.offset + last.size) :
              gl.data[Buffer_S[last.arg.buffer].bufobj][i] \in Bytes

\* C31: for every offset and size whose sum exceeds the capacity of the
\* buffer, a sum that wraps around the word width included, the bounds check
\* of writeBuffer rejects the write and the data store is left as it was.
C31_WrapDoesNotDefeatCheck ==
    (last.op = "writeBuffer" /\ last.arg.offset + last.size > last.arg.capacity) =>
        /\ ~Accepts(last.arg.offset, last.size, last.arg.capacity)
        /\ gl.data[Buffer_S[last.arg.buffer].bufobj] = last.arg.before

Replayed(log) == [k \in 1..Len(log) |-> <<log[k].record, log[k].type>>]

\* C33: submit leaves the records and the command count of the submitted
\* list as they were, and a submit that follows another submit of the list
\* with no startRecording between them replays the same record sequence.
C33_SubmitKeepsList ==
    [][last'.op = "submit" =>
         /\ CommandListImpl' = CommandListImpl
         /\ (variant = "gl33" /\ last.op = "submit" /\ ~crashed') =>
                Replayed(last'.arg.dispatched) = Replayed(last.arg.dispatched)]_vars
\* The second of two submits in a row of a list that holds a draw record.
C33_Witness ==
    /\ variant = "gl33" /\ last.op = "submit" /\ last.prev = "submit" /\ ~crashed
    /\ \E k \in 1..Len(Log) : Log[k].type = "DRAW"

\* C34: createRenderTarget, whether it returns a target or a null handle,
\* leaves the draw and read framebuffer bindings of the backend as they
\* were: a render target that the submit before it has bound through a
\* bind-render-target record is still bound after the call.
C34_CreateKeepsBoundTarget ==
    [][(/\ last.op = "submit"
        /\ gl.drawFramebuffer # 0
        /\ \E k \in 1..Len(Log) : Log[k].type = "BIND_RENDER_TARGET"
        /\ last'.op = "createRenderTarget") =>
           /\ gl'.drawFramebuffer = gl.drawFramebuffer
           /\ gl'.readFramebuffer = gl.readFramebuffer]_vars

\* C35: in both backends a createTexture that returns a null handle, as it
\* does for a texture type it does not know, leaves the set of backend
\* texture objects and the texture handles as they were before the call.
C35_UnknownTypeAllocatesNothing ==
    [][(last'.op = "createTexture" /\ last'.arg.handle = 0) =>
           /\ gl'.textures = gl.textures
           /\ Texture_S' = Texture_S]_vars

\* C36: no bind-vertex-buffer record of a submit is replayed while the cached
\* bound pipeline points to a vertex array group node that destroyPipeline
\* has released: when the record is reached, by a list that has no
\* bind-pipeline record before it, the head of the cached pipeline's group
\* chain is null or a live node.
C36_CacheRefersToLiveGroups ==
    [][last'.op = "submit" =>
          LET list == CommandListImpl[last'.arg.handle]
          IN  \A k \in 1..list.num_commands :
                  (/\ list.commands[k].type = "BIND_VERTEX_BUFFER"
                   /\ \A j \in 1..(k - 1) : list.commands[j].type # "BIND_PIPELINE") =>
                      \A w \in ReplayOf(list, k - 1) :
                          (~w.crashed /\ w.bp.vaos # 0) => w.bp.vaos \in DOMAIN w.va]_vars

====
